---- MODULE Spec2Model ----
(***************************************************************************)
(* Rendering orchestration layer of plantuml-markdown-preview: the LRU     *)
(* content caches, the local (child process) and remote (HTTP) backends,   *)
(* the bounded-concurrency and single-batch schedulers, cancellation, and  *)
(* theme discovery.                                                        *)
(*                                                                         *)
(* Strings are sequences of tokens (a token is a short run of characters), *)
(* so trimming, tag wrapping, splitting and hashing act on what the text   *)
(* contains.  The extension host is a single-threaded event loop: every    *)
(* action is one callback (a process event, a timer, an HTTP completion,   *)
(* a command) together with the promise continuations it wakes, which run  *)
(* as microtasks before the next callback.                                 *)
(***************************************************************************)
EXTENDS Integers, Sequences, FiniteSets, TLC

VARIABLES
    cache,                \* plantuml.ts: LruCache of hash -> SVG (local renders)
    serverCache,          \* plantuml-server.ts: LruCache of hash -> SVG (server renders)
    ops,                  \* every backend operation started so far (process or HTTP request)
    sess,                 \* every top-level render request (renderAllLocal / renderAllServer call)
    renderAbortController,\* preview.ts: session whose AbortController is current, 0 = null
    themeCacheKey,        \* plantuml.ts: key of the cached theme list
    themeCacheResult,     \* plantuml.ts: cached theme list, Null = null
    themePendingKey,      \* plantuml.ts: key of the in-flight theme fetch
    themePendingPromise,  \* plantuml.ts: fetch whose promise is pending, 0 = null
    themePendingChild,    \* plantuml.ts: fetch whose child process is pending, 0 = null
    fetches,              \* every theme discovery process started so far
    calls,                \* every listThemesAsync call made so far and what it returned
    accesses,             \* history: the get, set and clear calls made on `cache` by SpecLru
    calc,                 \* a call of a pure function: its name, arguments and result
    preview               \* preview.ts: the panel, its configuration, timers and document

renderVars == <<cache, serverCache, ops, sess, renderAbortController>>
themeVars == <<themeCacheKey, themeCacheResult, themePendingKey, themePendingPromise,
               themePendingChild, fetches, calls, accesses, calc, preview>>
vars == <<cache, serverCache, ops, sess, renderAbortController, themeCacheKey,
          themeCacheResult, themePendingKey, themePendingPromise, themePendingChild,
          fetches, calls, accesses, calc, preview>>

-----------------------------------------------------------------------------
(* Bounds of the model *)

MaxSessions == 2          \* top-level render requests issued in one run of Spec
MaxAborts == 2            \* abort() calls on one request's AbortController
MaxThemeCalls == 4        \* listThemesAsync calls in one run of SpecThemes
LruCapacity == 3          \* maxSize of the LruCache exercised by SpecLru
MaxAccesses == 5          \* get, set and clear calls in one run of SpecLru
MaxFieldLen == 2          \* characters in one field given to computeHash
MaxTimers == 2            \* debounce timers set in one run of SpecPreview
MaxRenders == 2           \* renderPanel calls in one run of SpecPreview

-----------------------------------------------------------------------------
(* Program constants *)

CACHE_MAX_SIZE == 200
MAX_CONCURRENCY == 3
MAX_SERVER_CONCURRENCY == 5
BATCH_BASE_TIMEOUT == 15000
BATCH_STEP_TIMEOUT == 5000
BATCH_MAX_TIMEOUT == 60000
DEFAULT_TIMEOUT_MS == 15000

-----------------------------------------------------------------------------
(* Strings *)

IsWs(t) == t \in {" ", "\n"}

RECURSIVE TrimStart(_)
TrimStart(s) ==
    IF s # <<>> /\ IsWs(Head(s)) THEN TrimStart(Tail(s)) ELSE s

RECURSIVE TrimEnd(_)
TrimEnd(s) ==
    IF s # <<>> /\ IsWs(s[Len(s)]) THEN TrimEnd(SubSeq(s, 1, Len(s) - 1)) ELSE s

\* String.prototype.trim
Trim(s) == TrimEnd(TrimStart(s))

StartTags == {"@startuml", "@startmindmap"}

\* content.startsWith('@start')
StartsWithStart(content) == content # <<>> /\ Head(content) \in StartTags

EnsureStartEndTags(content) ==
    IF ~StartsWithStart(content)
    THEN <<"@startuml", "\n">> \o content \o <<"\n", "@enduml">>
    ELSE content

ErrorHtml(message) == <<"<div error>">> \o message \o <<"</div>">>

\* SHA-256 over the parts joined by a NUL byte; the digest is taken to be
\* injective, so the hash is represented by the byte sequence it is fed.
RECURSIVE ComputeHash(_)
ComputeHash(parts) ==
    IF parts = <<>> THEN <<>>
    ELSE IF Len(parts) = 1 THEN parts[1]
    ELSE parts[1] \o <<"\\0">> \o ComputeHash(Tail(parts))

JAVA_HOME == <<>>

ResolveJavaCommand(configJavaPath) ==
    LET p == IF configJavaPath # <<>> THEN configJavaPath ELSE <<"java">>
    IN  IF p # <<"java">> THEN p
        ELSE IF JAVA_HOME # <<>> THEN JAVA_HOME \o <<"/bin/java">>
        ELSE <<"java">>

-----------------------------------------------------------------------------
(* LruCache: a sequence of entries, least recently used first *)

Undefined == <<"undefined">>

LruHas(map, key) == \E i \in 1..Len(map) : map[i].k = key

LruIndex(map, key) == CHOOSE i \in 1..Len(map) : map[i].k = key

LruDelete(map, key) ==
    IF LruHas(map, key)
    THEN LET i == LruIndex(map, key)
         IN  SubSeq(map, 1, i - 1) \o SubSeq(map, i + 1, Len(map))
    ELSE map

\* get that leaves a hit where it is
LruGetNoPromote(map, key) ==
    IF ~LruHas(map, key) THEN [value |-> Undefined, map |-> map]
    ELSE [value |-> map[LruIndex(map, key)].v, map |-> map]

\* get: a hit moves the entry to the most-recently-used end
LruGet(map, key) ==
    IF ~LruHas(map, key) THEN [value |-> Undefined, map |-> map]
    ELSE LET value == map[LruIndex(map, key)].v
         IN  [value |-> value,
              map |-> Append(LruDelete(map, key), [k |-> key, v |-> value])]

\* set that makes room before it looks for the key
LruSetEvictFirst(map, maxSize, key, value) ==
    LET m1 == IF Len(map) >= maxSize /\ map # <<>> THEN Tail(map) ELSE map
    IN  Append(LruDelete(m1, key), [k |-> key, v |-> value])

\* set: delete the key if present, evict the oldest entry if the map is full,
\* insert at the most-recently-used end
LruSet(map, maxSize, key, value) ==
    LET m1 == LruDelete(map, key)
        m2 == IF Len(m1) >= maxSize /\ m1 # <<>> THEN Tail(m1) ELSE m1
    IN  Append(m2, [k |-> key, v |-> value])

LruClear(map) == <<>>

-----------------------------------------------------------------------------
(* Result strings *)

Cancelled == <<>>                          \* '' : the cancelled result

ErrorObj(message) == <<"Error", message>>  \* new Error(message), a rejection reason

IsError(value) == value # <<>> /\ value[1] = "Error"

NoJarError ==
    ErrorHtml(<<"PlantUML jar is not configured.", "<br>",
                "<code>plantumlMarkdownPreview.jarPath</code>">>)

ExecutionError(message) == ErrorHtml(<<"PlantUML execution error: ", message>>)

TimedOutError == ExecutionError("Timed out")

ExitCodeText(exitCode) ==
    IF exitCode = 0 THEN "0" ELSE IF exitCode = 1 THEN "1" ELSE "-1"

\* Fallback branch of buildErrorMessage (stderr without a -stdrpt:1 report)
BuildErrorMessage(stderr, displayContent, lineOffset, exitCode) ==
    LET msg == IF Trim(stderr) # <<>> THEN Trim(stderr)
               ELSE <<"exit code ", ExitCodeText(exitCode)>>
    IN  ErrorHtml(<<"PlantUML error:", "<br>", "<pre>">> \o msg \o <<"</pre>">>)

ServerHttpError == ErrorHtml(<<"PlantUML server error: ", "HTTP 500">>)
ServerUnexpectedError == ErrorHtml(<<"PlantUML server returned unexpected response">>)
ServerTimedOutError == ErrorHtml(<<"PlantUML server request timed out">>)
ServerConnectionError == ErrorHtml(<<"PlantUML server connection error: ", "ECONNREFUSED">>)

\* One output document of the backend for `content`: an SVG, or an SVG that
\* draws the syntax error of the block.
SvgDoc(content) == <<"<?xml ", "<svg">> \o content \o <<"</svg>">>
ErrorSvgDoc(content) ==
    <<"<?xml ", "<svg", "Syntax Error">> \o content \o <<"</svg>">>

\* stdout.split(/(?=<\?xml\s)/): cut before every XML declaration
RECURSIVE SplitBeforeXml(_, _)
SplitBeforeXml(stdout, cur) ==
    IF stdout = <<>> THEN <<cur>>
    ELSE IF Head(stdout) = "<?xml " /\ cur # <<>>
         THEN <<cur>> \o SplitBeforeXml(Tail(stdout), <<Head(stdout)>>)
         ELSE SplitBeforeXml(Tail(stdout), Append(cur, Head(stdout)))

SplitSvgOutput(stdout) ==
    SelectSeq(SplitBeforeXml(stdout, <<>>), LAMBDA p : Trim(p) # <<>>)

IsErrorSvg(svg) ==
    \E i \in 1..Len(svg) : svg[i] \in {"[From string (line 1)]", "Syntax Error"}

\* svg.includes('<svg') || svg.includes('<?xml')
IsSvgBody(svg) == \E i \in 1..Len(svg) : svg[i] \in {"<svg", "<?xml "}

RECURSIVE Concat(_)
Concat(seqs) == IF seqs = <<>> THEN <<>> ELSE Head(seqs) \o Concat(Tail(seqs))

\* uncached.map(b => b.content).join('\n')
RECURSIVE JoinLines(_)
JoinLines(seqs) ==
    IF seqs = <<>> THEN <<>>
    ELSE IF Len(seqs) = 1 THEN seqs[1]
    ELSE seqs[1] \o <<"\n">> \o JoinLines(Tail(seqs))

-----------------------------------------------------------------------------
(* Maps (Map<string, string>) as functions *)

EmptyMap == <<>>

MapSet(m, key, value) ==
    [x \in (DOMAIN m) \cup {key} |-> IF x = key THEN value ELSE m[x]]

-----------------------------------------------------------------------------
(* Configurations *)

LocalConfig ==
    [jarPath |-> <<"plantuml.jar">>, javaPath |-> <<"java">>, dotPath |-> <<"dot">>,
     plantumlTheme |-> <<"default">>, serverUrl |-> <<>>]

NoJarConfig == [LocalConfig EXCEPT !.jarPath = <<>>]

ServerConfig ==
    [jarPath |-> <<>>, javaPath |-> <<"java">>, dotPath |-> <<"dot">>,
     plantumlTheme |-> <<"default">>, serverUrl |-> <<"https://server">>]

OrDefault(value, default) == IF value # <<>> THEN value ELSE default

\* Inject "!theme <name>" after the first line that starts with an @start tag
InjectThemeDirective(content, theme) ==
    LET starts == {i \in 1..Len(content) :
                      content[i] \in StartTags /\ (i = 1 \/ content[i - 1] = "\n")}
    IN  IF starts = {} THEN content
        ELSE LET i == CHOOSE x \in starts : \A y \in starts : x <= y
                 ends == {j \in i..Len(content) :
                             j = Len(content) \/ content[j + 1] = "\n"}
                 e == CHOOSE x \in ends : \A y \in ends : x <= y
             IN  SubSeq(content, 1, e) \o <<"\n", "!theme ">> \o theme
                 \o SubSeq(content, e + 1, Len(content))

\* prepareRenderContext without the test of the jar path
PrepareRenderContextNoJarCheck(pumlContent, config) ==
    LET jarPath == config.jarPath
        javaPath == OrDefault(config.javaPath, <<"java">>)
        dotPath == OrDefault(config.dotPath, <<"dot">>)
        plantumlTheme == OrDefault(config.plantumlTheme, <<"default">>)
        Hashed(trimmed, content) ==
            [error |-> <<>>,
             trimmed |-> trimmed,
             tagsAdded |-> ~StartsWithStart(trimmed),
             content |-> content,
             hash |-> ComputeHash(<<content, jarPath, ResolveJavaCommand(javaPath),
                                    dotPath, plantumlTheme>>)]
        Tagged(trimmed) == Hashed(trimmed, EnsureStartEndTags(trimmed))
    IN  Tagged(Trim(pumlContent))

\* prepareRenderContext whose hash leaves out the dot path
PrepareRenderContextWithoutDot(pumlContent, config) ==
    LET jarPath == config.jarPath
        javaPath == OrDefault(config.javaPath, <<"java">>)
        plantumlTheme == OrDefault(config.plantumlTheme, <<"default">>)
        Hashed(trimmed, content) ==
            [error |-> <<>>,
             trimmed |-> trimmed,
             tagsAdded |-> ~StartsWithStart(trimmed),
             content |-> content,
             hash |-> ComputeHash(<<content, jarPath, ResolveJavaCommand(javaPath),
                                    plantumlTheme>>)]
        Tagged(trimmed) == Hashed(trimmed, EnsureStartEndTags(trimmed))
    IN  IF jarPath = <<>>
        THEN [error |-> NoJarError]
        ELSE Tagged(Trim(pumlContent))

\* prepareRenderContext: the error, or the context of one local render
PrepareRenderContext(pumlContent, config) ==
    LET jarPath == config.jarPath
        javaPath == OrDefault(config.javaPath, <<"java">>)
        dotPath == OrDefault(config.dotPath, <<"dot">>)
        plantumlTheme == OrDefault(config.plantumlTheme, <<"default">>)
        Hashed(trimmed, content) ==
            [error |-> <<>>,
             trimmed |-> trimmed,
             tagsAdded |-> ~StartsWithStart(trimmed),
             content |-> content,
             hash |-> ComputeHash(<<content, jarPath, ResolveJavaCommand(javaPath),
                                    dotPath, plantumlTheme>>)]
        Tagged(trimmed) == Hashed(trimmed, EnsureStartEndTags(trimmed))
    IN  IF jarPath = <<>>
        THEN [error |-> NoJarError]
        ELSE Tagged(Trim(pumlContent))

\* plantuml-server.ts cacheKey
CacheKey(content, config) ==
    ComputeHash(<<content, config.serverUrl,
                  OrDefault(config.plantumlTheme, <<"default">>)>>)

-----------------------------------------------------------------------------
(* The heap the handlers work on: the module-level state of plantuml.ts and *)
(* plantuml-server.ts plus the promises and closures of the calls in flight. *)

Heap == [cache |-> cache, serverCache |-> serverCache, ops |-> ops, sess |-> sess]

Commit(h) ==
    /\ cache' = h.cache
    /\ serverCache' = h.serverCache
    /\ ops' = h.ops
    /\ sess' = h.sess

Min(a, b) == IF a <= b THEN a ELSE b

\* A promise: already resolved with val (op = 0), or settled by operation op
Resolved(value) == [op |-> 0, val |-> value]
Pending(o) == [op |-> o, val |-> <<>>]

\* Promise.race in place of Promise.all: one settled promise is enough
AnySettled(h, ps) == \E j \in 1..Len(ps) : ps[j].op = 0 \/ h.ops[ps[j].op].settled

AllSettled(h, ps) == \A j \in 1..Len(ps) : ps[j].op = 0 \/ h.ops[ps[j].op].settled

PromiseValue(h, p) == IF p.op = 0 THEN p.val ELSE h.ops[p.op].val

\* a scheduler that never looks at the signal
SigNeverAborted(h, s) == FALSE

\* signal?.aborted
SigAborted(h, s) == h.sess[s].sig /\ h.sess[s].aborted

\* activeChildren
ActiveChildren(h) == {o \in 1..Len(h.ops) : h.ops[o].tracked}

NewOp(kind, s, grp, trimmed, content, hash, blocks, timeout, sig) ==
    [kind |-> kind, s |-> s, grp |-> grp, trimmed |-> trimmed, content |-> content,
     hash |-> hash, blocks |-> blocks, timeout |-> timeout,
     phase |-> IF kind = "http" THEN "fetch" ELSE "proc",
     settled |-> FALSE, settles |-> 0, val |-> <<>>, kills |-> 0,
     timer |-> TRUE, lsn |-> sig, tracked |-> kind # "http",
     closed |-> FALSE, erred |-> FALSE, code |-> "", stdout |-> <<>>]

-----------------------------------------------------------------------------
(* renderToSvgAsync and spawnBatchJvm: one child process each *)

\* settle without the `settled` flag: every call goes through
SettleUnguarded(h, o, value) ==
    [h EXCEPT !.ops[o].settled = TRUE,
              !.ops[o].settles = @ + 1,
              !.ops[o].tracked = FALSE,
              !.ops[o].val = value]

\* settle(value): the first call resolves (or rejects) the promise
Settle(h, o, value) ==
    IF h.ops[o].settled THEN h
    ELSE [h EXCEPT !.ops[o].settled = TRUE,
                   !.ops[o].settles = @ + 1,
                   !.ops[o].tracked = FALSE,
                   !.ops[o].val = value]

\* onAbort that settles without killing the process
OnAbortNoKill(h, o) ==
    LET h1 == [h EXCEPT !.ops[o].timer = FALSE, !.ops[o].lsn = FALSE]
    IN  Settle(h1, o, IF h.ops[o].kind = "batch" THEN ErrorObj("aborted")
                      ELSE Cancelled)

\* onAbort of a child process
OnAbort(h, o) ==
    LET h1 == [h EXCEPT !.ops[o].timer = FALSE,
                        !.ops[o].lsn = FALSE,
                        !.ops[o].kills = @ + 1]
    IN  Settle(h1, o, IF h.ops[o].kind = "batch" THEN ErrorObj("aborted")
                      ELSE Cancelled)

\* a timer callback that settles without killing the process
OnTimerNoKill(h, o) ==
    LET h1 == [h EXCEPT !.ops[o].timer = FALSE]
    IN  Settle(h1, o, IF h.ops[o].kind = "batch" THEN ErrorObj("Timed out")
                      ELSE TimedOutError)

\* a timeout that kills the process and leaves the promise to the close handler
OnTimerKillOnly(h, o) ==
    [h EXCEPT !.ops[o].timer = FALSE, !.ops[o].kills = @ + 1]

\* the setTimeout callback of a child process
OnTimer(h, o) ==
    LET h1 == [h EXCEPT !.ops[o].timer = FALSE, !.ops[o].kills = @ + 1]
    IN  Settle(h1, o, IF h.ops[o].kind = "batch" THEN ErrorObj("Timed out")
                      ELSE TimedOutError)

\* an 'error' handler that passes the Error object on instead of an error string
OnErrorRejects(h, o) ==
    LET h1 == [h EXCEPT !.ops[o].timer = FALSE,
                        !.ops[o].lsn = FALSE,
                        !.ops[o].erred = TRUE]
    IN  Settle(h1, o, ErrorObj("ENOENT"))

\* child.on('error')
OnError(h, o) ==
    LET h1 == [h EXCEPT !.ops[o].timer = FALSE,
                        !.ops[o].lsn = FALSE,
                        !.ops[o].erred = TRUE]
    IN  Settle(h1, o, IF h.ops[o].kind = "batch" THEN ErrorObj("ENOENT")
                      ELSE ExecutionError("ENOENT"))

\* renderToSvgAsync whose close handler caches the output whatever the exit code
OnCloseSingleCachesAnyExit(h, o, code, stdout, stderr) ==
    LET op == h.ops[o]
        h1 == [h EXCEPT !.ops[o].timer = FALSE,
                        !.ops[o].lsn = FALSE,
                        !.ops[o].closed = TRUE]
        h2 == [h1 EXCEPT !.ops[o].code = code,
                         !.cache = LruSet(@, CACHE_MAX_SIZE, op.hash, stdout)]
    IN  IF op.settled THEN h1
        ELSE IF code # "0"
        THEN Settle(h2, o, BuildErrorMessage(stderr, op.trimmed,
                               IF StartsWithStart(op.trimmed) THEN 0 ELSE 1,
                               IF code = "1" THEN 1 ELSE -1))
        ELSE Settle(h2, o, stdout)

\* child.on('close') of renderToSvgAsync
OnCloseSingle(h, o, code, stdout, stderr) ==
    LET op == h.ops[o]
        h1 == [h EXCEPT !.ops[o].timer = FALSE,
                        !.ops[o].lsn = FALSE,
                        !.ops[o].closed = TRUE]
        h2 == [h1 EXCEPT !.ops[o].code = code]
    IN  IF op.settled THEN h1
        ELSE IF code # "0"
        THEN Settle(h2, o, BuildErrorMessage(stderr, op.trimmed,
                               IF StartsWithStart(op.trimmed) THEN 0 ELSE 1,
                               IF code = "1" THEN 1 ELSE -1))
        ELSE Settle([h2 EXCEPT !.ops[o].stdout = stdout,
                               !.cache = LruSet(@, CACHE_MAX_SIZE, op.hash, stdout)],
                    o, stdout)

\* child.on('close') of spawnBatchJvm
OnCloseBatch(h, o, code, stdout) ==
    LET op == h.ops[o]
        h1 == [h EXCEPT !.ops[o].timer = FALSE,
                        !.ops[o].lsn = FALSE,
                        !.ops[o].closed = TRUE]
        h2 == [h1 EXCEPT !.ops[o].code = code, !.ops[o].stdout = stdout]
    IN  IF op.settled THEN h1
        ELSE IF code # "0" /\ Trim(stdout) = <<>>
        THEN Settle(h2, o, ErrorObj("Process exited with code"))
        ELSE Settle(h2, o, stdout)

RenderToSvgAsync(h, s, pumlContent, grp) ==
    LET Spawn(prepared, got) ==
            IF got.value # Undefined
            THEN [h |-> [h EXCEPT !.cache = got.map], p |-> Resolved(got.value)]
            ELSE IF SigAborted(h, s) THEN [h |-> h, p |-> Resolved(Cancelled)]
            ELSE [h |-> [h EXCEPT !.ops = Append(@,
                             NewOp("single", s, grp, prepared.trimmed,
                                   prepared.content, prepared.hash, <<>>,
                                   DEFAULT_TIMEOUT_MS, h.sess[s].sig))],
                  p |-> Pending(Len(h.ops) + 1)]
        Lookup(prepared) ==
            IF prepared.error # <<>> THEN [h |-> h, p |-> Resolved(prepared.error)]
            ELSE Spawn(prepared, LruGet(h.cache, prepared.hash))
    IN  Lookup(PrepareRenderContext(pumlContent, h.sess[s].cfg))

-----------------------------------------------------------------------------
(* renderToSvgServer: one HTTP request *)

\* the content sent to the server: the theme goes in as a !theme directive
ThemedContent(content, config) ==
    IF config.plantumlTheme # <<>> /\ config.plantumlTheme # <<"default">>
    THEN InjectThemeDirective(content, config.plantumlTheme)
    ELSE content

\* return from renderToSvgServer, through its finally block
HttpReturn(h, o, value) ==
    [h EXCEPT !.ops[o].settled = TRUE,
              !.ops[o].settles = @ + 1,
              !.ops[o].val = value,
              !.ops[o].phase = "done",
              !.ops[o].timer = FALSE,
              !.ops[o].lsn = FALSE]

\* the catch block without the test of the external signal
HttpAbortedAsTimeout(h, o) ==
    IF h.ops[o].phase \notin {"fetch", "body"} THEN h
    ELSE HttpReturn(h, o, ServerTimedOutError)

\* controller.abort(): fetch (or the body read) rejects with AbortError
HttpAborted(h, o) ==
    IF h.ops[o].phase \notin {"fetch", "body"} THEN h
    ELSE HttpReturn(h, o, IF SigAborted(h, h.ops[o].s) THEN Cancelled
                          ELSE ServerTimedOutError)

\* fetch resolved with a response
HttpOnResponse(h, o, ok) ==
    IF ~ok THEN HttpReturn(h, o, ServerHttpError)
    ELSE [h EXCEPT !.ops[o].phase = "body"]

\* renderToSvgServer without the validation of the body
HttpOnBodyUnvalidated(h, o, svg) ==
    HttpReturn([h EXCEPT !.serverCache =
                   LruSet(@, CACHE_MAX_SIZE, h.ops[o].hash, svg)], o, svg)

\* renderToSvgServer that returns the SVG without caching it
HttpOnBodyNoCache(h, o, svg) ==
    IF ~IsSvgBody(svg) THEN HttpReturn(h, o, ServerUnexpectedError)
    ELSE HttpReturn(h, o, svg)

\* response.text() resolved
HttpOnBody(h, o, svg) ==
    IF ~IsSvgBody(svg) THEN HttpReturn(h, o, ServerUnexpectedError)
    ELSE HttpReturn([h EXCEPT !.serverCache =
                        LruSet(@, CACHE_MAX_SIZE, h.ops[o].hash, svg)], o, svg)

RenderToSvgServer(h, s, pumlContent, grp) ==
    LET config == h.sess[s].cfg
        Fetch(trimmed, themedContent, hash, got) ==
            IF got.value # Undefined
            THEN [h |-> [h EXCEPT !.serverCache = got.map], p |-> Resolved(got.value)]
            ELSE IF SigAborted(h, s) THEN [h |-> h, p |-> Resolved(Cancelled)]
            ELSE [h |-> [h EXCEPT !.ops = Append(@,
                             NewOp("http", s, grp, trimmed, themedContent, hash, <<>>,
                                   DEFAULT_TIMEOUT_MS, h.sess[s].sig))],
                  p |-> Pending(Len(h.ops) + 1)]
        Lookup(trimmed, themedContent, hash) ==
            Fetch(trimmed, themedContent, hash, LruGet(h.serverCache, hash))
        Keyed(trimmed, themedContent) ==
            Lookup(trimmed, themedContent, CacheKey(themedContent, config))
        Themed(trimmed, content) == Keyed(trimmed, ThemedContent(content, config))
        Tagged(trimmed) == Themed(trimmed, EnsureStartEndTags(trimmed))
    IN  Tagged(Trim(pumlContent))

\* AbortController.abort() of request s: the first call sets the flag and runs
\* the listeners still attached; later calls do nothing.
RECURSIVE RunAbortListeners(_, _, _)
RunAbortListeners(h, s, o) ==
    IF o > Len(h.ops) THEN h
    ELSE IF h.ops[o].s = s /\ h.ops[o].lsn
         THEN RunAbortListeners(
                  IF h.ops[o].kind = "http"
                  THEN HttpAborted([h EXCEPT !.ops[o].lsn = FALSE], o)
                  ELSE OnAbort(h, o), s, o + 1)
         ELSE RunAbortListeners(h, s, o + 1)

AbortSignal(h, s) ==
    IF h.sess[s].aborted
    THEN [h EXCEPT !.sess[s].aborts = @ + 1]
    ELSE RunAbortListeners([h EXCEPT !.sess[s].aborted = TRUE,
                                     !.sess[s].aborts = @ + 1], s, 1)

-----------------------------------------------------------------------------
(* batchRender (utils.ts): bounded-concurrency fan-out, used by            *)
(* renderAllServer and by the fan-out renderAllLocal                        *)

NewSession(mode, sig, cfg, blocks) ==
    [mode |-> mode, sig |-> sig, aborted |-> FALSE, aborts |-> 0, cfg |-> cfg,
     blocks |-> blocks, pc |-> "start", results |-> EmptyMap, uniq |-> <<>>,
     i |-> 1, pend |-> <<>>, uncached |-> <<>>, errIdx |-> <<>>, k |-> 1,
     fallback |-> "none"]

\* [...new Set(blocks)]: the distinct elements in order of first occurrence
RECURSIVE Unique(_, _)
Unique(blocks, acc) ==
    IF blocks = <<>> THEN acc
    ELSE IF \E j \in 1..Len(acc) : acc[j] = Head(blocks)
         THEN Unique(Tail(blocks), acc)
         ELSE Unique(Tail(blocks), Append(acc, Head(blocks)))

\* a group one larger than the limit
ConcurrencyOffByOne(mode) ==
    IF mode = "server" THEN MAX_SERVER_CONCURRENCY + 1 ELSE MAX_CONCURRENCY + 1

Concurrency(mode) ==
    IF mode = "server" THEN MAX_SERVER_CONCURRENCY ELSE MAX_CONCURRENCY

\* renderFn of renderAllServer / renderAllLocal
RenderFn(h, s, content, grp) ==
    IF h.sess[s].mode = "server" THEN RenderToSvgServer(h, s, content, grp)
    ELSE RenderToSvgAsync(h, s, content, grp)

\* batch.map(content => signal?.aborted ? Promise.resolve('') : renderFn(content, signal))
RECURSIVE StartGroup(_, _, _, _, _)
StartGroup(h, s, batch, grp, acc) ==
    LET Rest(r) == StartGroup(r.h, s, Tail(batch), grp, Append(acc, r.p))
    IN  IF batch = <<>> THEN [h |-> h, ps |-> acc]
        ELSE Rest(IF SigAborted(h, s) THEN [h |-> h, p |-> Resolved(Cancelled)]
                  ELSE RenderFn(h, s, Head(batch), grp))

GroupOf(h, s) ==
    LET se == h.sess[s]
        c == Concurrency(se.mode)
    IN  SubSeq(se.uniq, se.i, Min(se.i + c - 1, Len(se.uniq)))

\* results.set(batch[j].trim(), svgs[j]) for the whole group
RECURSIVE SetGroupResults(_, _, _, _, _)
SetGroupResults(h, results, batch, ps, j) ==
    IF j > Len(batch) THEN results
    ELSE SetGroupResults(h, MapSet(results, Trim(batch[j]), PromiseValue(h, ps[j])),
                         batch, ps, j + 1)

\* after `await Promise.all(...)`: store the group and advance i
CollectGroup(h, s) ==
    LET se == h.sess[s]
    IN  [h EXCEPT !.sess[s].results =
                      SetGroupResults(h, se.results, GroupOf(h, s), se.pend, 1),
                  !.sess[s].i = @ + Concurrency(se.mode),
                  !.sess[s].pend = <<>>]

\* head of the for loop of batchRender, up to the next await that suspends
RECURSIVE BatchRender(_, _)
BatchRender(h, s) ==
    LET se == h.sess[s]
        Await(h1) ==
            IF AllSettled(h1, h1.sess[s].pend) THEN BatchRender(CollectGroup(h1, s), s)
            ELSE h1
        Started(st) ==
            Await([st.h EXCEPT !.sess[s].pend = st.ps, !.sess[s].pc = "group"])
    IN  IF se.i > Len(se.uniq) \/ SigAborted(h, s)
        THEN [h EXCEPT !.sess[s].pc = "done", !.sess[s].pend = <<>>]
        ELSE Started(StartGroup(h, s, GroupOf(h, s),
                                ((se.i - 1) \div Concurrency(se.mode)) + 1, <<>>))

-----------------------------------------------------------------------------
(* renderBatchLocal (plantuml.ts): one JVM for all uncached blocks, with   *)
(* fallback to individual renders                                           *)

\* for (const b of blocks) results.set(b.trim(), err)
RECURSIVE SetAll(_, _, _)
SetAll(results, blocks, value) ==
    IF blocks = <<>> THEN results
    ELSE SetAll(MapSet(results, Trim(Head(blocks)), value), Tail(blocks), value)

\* the deduplication loop: cached blocks go to results, the others to uncached
RECURSIVE ScanBlocks(_, _, _, _, _, _)
ScanBlocks(h, config, blocks, seen, results, uncached) ==
    LET Looked(trimmed, content, hash, got) ==
            IF got.value # Undefined
            THEN ScanBlocks([h EXCEPT !.cache = got.map], config, Tail(blocks),
                            seen \cup {trimmed},
                            MapSet(results, trimmed, got.value), uncached)
            ELSE ScanBlocks(h, config, Tail(blocks), seen \cup {trimmed}, results,
                            Append(uncached, [trimmed |-> trimmed,
                                              content |-> content,
                                              hash |-> hash]))
        Hashed(trimmed, content, hash) ==
            Looked(trimmed, content, hash, LruGet(h.cache, hash))
        Tagged(trimmed, content) ==
            Hashed(trimmed, content,
                   ComputeHash(<<content, config.jarPath,
                       ResolveJavaCommand(OrDefault(config.javaPath, <<"java">>)),
                       OrDefault(config.dotPath, <<"dot">>),
                       OrDefault(config.plantumlTheme, <<"default">>)>>))
        Scan(trimmed) ==
            IF trimmed \in seen
            THEN ScanBlocks(h, config, Tail(blocks), seen, results, uncached)
            ELSE Tagged(trimmed, EnsureStartEndTags(trimmed))
    IN  IF blocks = <<>> THEN [h |-> h, results |-> results, uncached |-> uncached]
        ELSE Scan(Trim(Head(blocks)))

\* the batch timeout without its maximum
BatchTimeoutUncapped(n) ==
    BATCH_BASE_TIMEOUT + (n - 1) * BATCH_STEP_TIMEOUT

\* Dynamic timeout: 15s base + 5s per additional block, max 60s
BatchTimeout(n) ==
    Min(BATCH_BASE_TIMEOUT + (n - 1) * BATCH_STEP_TIMEOUT, BATCH_MAX_TIMEOUT)

Contents(uncached) == [j \in 1..Len(uncached) |-> uncached[j].content]

\* fallbackToIndividual: head of its for loop, up to the next await that suspends
RECURSIVE FallbackToIndividual(_, _)
FallbackToIndividual(h, s) ==
    LET se == h.sess[s]
        Started(r) ==
            IF r.p.op = 0
            THEN FallbackToIndividual(
                     [r.h EXCEPT !.sess[s].results =
                                     MapSet(@, se.uncached[se.k].trimmed, r.p.val),
                                 !.sess[s].k = @ + 1], s)
            ELSE [r.h EXCEPT !.sess[s].pend = <<r.p>>, !.sess[s].pc = "fallback"]
    IN  IF se.k > Len(se.uncached) \/ SigAborted(h, s)
        THEN [h EXCEPT !.sess[s].pc = "done", !.sess[s].pend = <<>>]
        ELSE Started(RenderToSvgAsync(h, s, se.uncached[se.k].trimmed, 0))

\* renderBatchLocal without the loop over errorIndices
RerenderErrorsSkipped(h, s) ==
    [h EXCEPT !.sess[s].pc = "done", !.sess[s].pend = <<>>]

\* the loop over errorIndices of renderBatchLocal
RECURSIVE RerenderErrors(_, _)
RerenderErrors(h, s) ==
    LET se == h.sess[s]
        Started(b, r) ==
            IF r.p.op = 0
            THEN RerenderErrors(
                     [r.h EXCEPT !.sess[s].results = MapSet(@, b.trimmed, r.p.val),
                                 !.sess[s].k = @ + 1], s)
            ELSE [r.h EXCEPT !.sess[s].pend = <<r.p>>, !.sess[s].pc = "rerender"]
    IN  IF se.k > Len(se.errIdx) \/ SigAborted(h, s)
        THEN [h EXCEPT !.sess[s].pc = "done", !.sess[s].pend = <<>>]
        ELSE Started(se.uncached[se.errIdx[se.k]],
                     RenderToSvgAsync(h, s, se.uncached[se.errIdx[se.k]].trimmed, 0))

\* the loop over the split output without the isErrorSvg test
RECURSIVE TakeSvgsUnchecked(_, _, _, _)
TakeSvgsUnchecked(h, s, svgs, j) ==
    LET se == h.sess[s]
    IN  IF j > Len(se.uncached) THEN h
        ELSE TakeSvgsUnchecked([h EXCEPT !.cache = LruSet(@, CACHE_MAX_SIZE,
                                                          se.uncached[j].hash, svgs[j]),
                                         !.sess[s].results =
                                             MapSet(@, se.uncached[j].trimmed, svgs[j])],
                               s, svgs, j + 1)

\* the loop over the split output: cache and return the good documents,
\* remember the indices of the error documents
RECURSIVE TakeSvgs(_, _, _, _)
TakeSvgs(h, s, svgs, j) ==
    LET se == h.sess[s]
    IN  IF j > Len(se.uncached) THEN h
        ELSE IF IsErrorSvg(svgs[j])
             THEN TakeSvgs([h EXCEPT !.sess[s].errIdx = Append(@, j)], s, svgs, j + 1)
             ELSE TakeSvgs([h EXCEPT !.cache = LruSet(@, CACHE_MAX_SIZE,
                                                      se.uncached[j].hash, svgs[j]),
                                     !.sess[s].results =
                                         MapSet(@, se.uncached[j].trimmed, svgs[j])],
                           s, svgs, j + 1)

\* renderBatchLocal that returns what it has when the counts differ
AfterBatchNoFallback(h, s) ==
    LET se == h.sess[s]
        h0 == [h EXCEPT !.sess[s].pend = <<>>, !.sess[s].k = 1]
        Split(svgs) ==
            IF Len(svgs) # Len(se.uncached)
            THEN [h0 EXCEPT !.sess[s].fallback = "mismatch", !.sess[s].pc = "done"]
            ELSE RerenderErrors(TakeSvgs(h0, s, svgs, 1), s)
        Awaited(value) ==
            IF IsError(value)
            THEN FallbackToIndividual([h0 EXCEPT !.sess[s].fallback = "failed"], s)
            ELSE Split(SplitSvgOutput(value))
    IN  Awaited(PromiseValue(h, se.pend[1]))

\* renderBatchLocal whose catch block returns the results it has
AfterBatchFailureReturns(h, s) ==
    LET se == h.sess[s]
        h0 == [h EXCEPT !.sess[s].pend = <<>>, !.sess[s].k = 1]
        Split(svgs) ==
            IF Len(svgs) # Len(se.uncached)
            THEN FallbackToIndividual([h0 EXCEPT !.sess[s].fallback = "mismatch"], s)
            ELSE RerenderErrors(TakeSvgs(h0, s, svgs, 1), s)
        Awaited(value) ==
            IF IsError(value)
            THEN [h0 EXCEPT !.sess[s].fallback = "failed", !.sess[s].pc = "done"]
            ELSE Split(SplitSvgOutput(value))
    IN  Awaited(PromiseValue(h, se.pend[1]))

\* renderBatchLocal after `await spawnBatchJvm(...)`
AfterBatch(h, s) ==
    LET se == h.sess[s]
        h0 == [h EXCEPT !.sess[s].pend = <<>>, !.sess[s].k = 1]
        Split(svgs) ==
            IF Len(svgs) # Len(se.uncached)
            THEN FallbackToIndividual([h0 EXCEPT !.sess[s].fallback = "mismatch"], s)
            ELSE RerenderErrors(TakeSvgs(h0, s, svgs, 1), s)
        Awaited(value) ==
            IF IsError(value)
            THEN FallbackToIndividual([h0 EXCEPT !.sess[s].fallback = "failed"], s)
            ELSE Split(SplitSvgOutput(value))
    IN  Awaited(PromiseValue(h, se.pend[1]))

\* renderBatchLocal up to `await spawnBatchJvm(...)`
RenderBatchLocal(h, s) ==
    LET se == h.sess[s]
        config == se.cfg
        Scanned(sc) ==
            IF sc.uncached = <<>> \/ SigAborted(h, s)
            THEN [sc.h EXCEPT !.sess[s].results = sc.results,
                              !.sess[s].uncached = sc.uncached,
                              !.sess[s].pc = "done"]
            ELSE [sc.h EXCEPT !.sess[s].results = sc.results,
                              !.sess[s].uncached = sc.uncached,
                              !.ops = Append(@,
                                  NewOp("batch", s, 0, <<>>,
                                        JoinLines(Contents(sc.uncached)), <<>>,
                                        sc.uncached, BatchTimeout(Len(sc.uncached)),
                                        se.sig)),
                              !.sess[s].pend = <<Pending(Len(h.ops) + 1)>>,
                              !.sess[s].pc = "batch"]
    IN  IF config.jarPath = <<>>
        THEN [h EXCEPT !.sess[s].results = SetAll(EmptyMap, se.blocks, NoJarError),
                       !.sess[s].pc = "done"]
        ELSE Scanned(ScanBlocks(h, config, se.blocks, {}, EmptyMap, <<>>))

\* renderAllLocal / renderAllServer: the call, up to its first suspension
RenderAll(h, s) ==
    IF h.sess[s].mode = "batch" THEN RenderBatchLocal(h, s)
    ELSE BatchRender([h EXCEPT !.sess[s].uniq = Unique(h.sess[s].blocks, <<>>)], s)

\* the continuation of request s, if everything it awaits has settled
Resume(h, s) ==
    LET se == h.sess[s]
    IN  IF se.pc \in {"start", "done"} \/ ~AllSettled(h, se.pend) THEN h
        ELSE IF se.pc = "group" THEN BatchRender(CollectGroup(h, s), s)
        ELSE IF se.pc = "batch" THEN AfterBatch(h, s)
        ELSE IF se.pc = "fallback"
        THEN FallbackToIndividual(
                 [h EXCEPT !.sess[s].results =
                               MapSet(@, se.uncached[se.k].trimmed,
                                      PromiseValue(h, se.pend[1])),
                           !.sess[s].k = @ + 1,
                           !.sess[s].pend = <<>>], s)
        ELSE RerenderErrors(
                 [h EXCEPT !.sess[s].results =
                               MapSet(@, se.uncached[se.errIdx[se.k]].trimmed,
                                      PromiseValue(h, se.pend[1])),
                           !.sess[s].k = @ + 1,
                           !.sess[s].pend = <<>>], s)

-----------------------------------------------------------------------------
(* Theme discovery (plantuml.ts): listThemesAsync, its execJava callback,   *)
(* and clearCache                                                           *)

\* a theme name is a string
FALLBACK_PLANTUML_THEMES ==
    << <<"cerulean">>, <<"cyborg">>, <<"mars">>, <<"sketchy">>, <<"vibrant">> >>

\* jarPath + '\0' + javaPath
ThemeKey(jarPath, javaPath) == jarPath \o <<"\\0">> \o javaPath

\* output.split('\n')
RECURSIVE SplitLines(_, _)
SplitLines(output, cur) ==
    IF output = <<>> THEN <<cur>>
    ELSE IF Head(output) = "\n" THEN <<cur>> \o SplitLines(Tail(output), <<>>)
    ELSE SplitLines(Tail(output), Append(cur, Head(output)))

\* the loop of parseHelpThemes over the lines
RECURSIVE CollectThemes(_, _, _)
CollectThemes(lines, inList, themes) ==
    LET Line(trimmed) ==
            IF ~inList
            THEN CollectThemes(Tail(lines),
                     trimmed # <<>> /\ trimmed[1] = "The possible themes are", themes)
            ELSE IF trimmed = <<>> \/ trimmed = <<"_none_">>
            THEN CollectThemes(Tail(lines), inList, themes)
            ELSE CollectThemes(Tail(lines), inList, Append(themes, trimmed))
    IN  IF lines = <<>> THEN themes ELSE Line(Trim(Head(lines)))

ParseHelpThemes(output) == CollectThemes(SplitLines(output, <<>>), FALSE, <<>>)

\* listThemes: the cached list or the fallback list, never a process
ListThemes(config) ==
    IF config.jarPath = <<>> THEN FALLBACK_PLANTUML_THEMES
    ELSE IF themeCacheKey = ThemeKey(config.jarPath, OrDefault(config.javaPath, <<"java">>))
            /\ themeCacheResult # <<>>
    THEN themeCacheResult
    ELSE FALLBACK_PLANTUML_THEMES

\* listThemesAsync and clearCache that leave the previous process running
KillFetchSkipped(fs, f) == fs

\* child.kill() on the process of fetch f
KillFetch(fs, f) == IF f = 0 THEN fs ELSE [fs EXCEPT ![f].killed = TRUE]

\* listThemesAsync without the check for a pending fetch of the same key
ListThemesAsyncNoDedup(config) ==
    LET jarPath == config.jarPath
        javaPath == OrDefault(config.javaPath, <<"java">>)
        key == ThemeKey(jarPath, javaPath)
        attached == IF jarPath # <<>> /\ themePendingPromise # 0 /\ themePendingKey = key
                    THEN themePendingPromise ELSE 0
        Call(ret, started) ==
            [key |-> IF jarPath = <<>> THEN <<>> ELSE key,
             pending |-> attached,
             cached |-> jarPath # <<>> /\ themeCacheKey = key /\ themeCacheResult # <<>>,
             ret |-> ret,
             started |-> started]
    IN  IF jarPath = <<>>
        THEN /\ calls' = Append(calls, Call(Resolved(FALLBACK_PLANTUML_THEMES), 0))
             /\ UNCHANGED <<themeCacheKey, themeCacheResult, themePendingKey,
                            themePendingPromise, themePendingChild, fetches>>
        ELSE IF themeCacheKey = key /\ themeCacheResult # <<>>
        THEN /\ calls' = Append(calls, Call(Resolved(themeCacheResult), 0))
             /\ UNCHANGED <<themeCacheKey, themeCacheResult, themePendingKey,
                            themePendingPromise, themePendingChild, fetches>>
        ELSE /\ fetches' = Append(KillFetch(fetches, themePendingChild),
                                  [key |-> key, killed |-> FALSE, done |-> FALSE,
                                   val |-> <<>>])
             /\ themePendingKey' = key
             /\ themePendingChild' = Len(fetches) + 1
             /\ themePendingPromise' = Len(fetches) + 1
             /\ calls' = Append(calls, Call(Pending(Len(fetches) + 1), Len(fetches) + 1))
             /\ UNCHANGED <<themeCacheKey, themeCacheResult>>

ListThemesAsync(config) ==
    LET jarPath == config.jarPath
        javaPath == OrDefault(config.javaPath, <<"java">>)
        key == ThemeKey(jarPath, javaPath)
        attached == IF jarPath # <<>> /\ themePendingPromise # 0 /\ themePendingKey = key
                    THEN themePendingPromise ELSE 0
        Call(ret, started) ==
            [key |-> IF jarPath = <<>> THEN <<>> ELSE key,
             pending |-> attached,
             cached |-> jarPath # <<>> /\ themeCacheKey = key /\ themeCacheResult # <<>>,
             ret |-> ret,
             started |-> started]
    IN  IF jarPath = <<>>
        THEN /\ calls' = Append(calls, Call(Resolved(FALLBACK_PLANTUML_THEMES), 0))
             /\ UNCHANGED <<themeCacheKey, themeCacheResult, themePendingKey,
                            themePendingPromise, themePendingChild, fetches>>
        ELSE IF themeCacheKey = key /\ themeCacheResult # <<>>
        THEN /\ calls' = Append(calls, Call(Resolved(themeCacheResult), 0))
             /\ UNCHANGED <<themeCacheKey, themeCacheResult, themePendingKey,
                            themePendingPromise, themePendingChild, fetches>>
        ELSE IF themePendingPromise # 0 /\ themePendingKey = key
        THEN /\ calls' = Append(calls, Call(Pending(themePendingPromise), 0))
             /\ UNCHANGED <<themeCacheKey, themeCacheResult, themePendingKey,
                            themePendingPromise, themePendingChild, fetches>>
        ELSE /\ fetches' = Append(KillFetch(fetches, themePendingChild),
                                  [key |-> key, killed |-> FALSE, done |-> FALSE,
                                   val |-> <<>>])
             /\ themePendingKey' = key
             /\ themePendingChild' = Len(fetches) + 1
             /\ themePendingPromise' = Len(fetches) + 1
             /\ calls' = Append(calls, Call(Pending(Len(fetches) + 1), Len(fetches) + 1))
             /\ UNCHANGED <<themeCacheKey, themeCacheResult>>

\* a callback that also caches the fallback list of a failed fetch
ThemeCallbackCachesFailure(f, err, stdout) ==
    LET themes == ParseHelpThemes(stdout)
        result == IF err \/ stdout = <<>> \/ themes = <<>>
                  THEN FALLBACK_PLANTUML_THEMES ELSE themes
    IN  /\ IF themePendingPromise = f
           THEN themePendingPromise' = 0 /\ themePendingChild' = 0
           ELSE UNCHANGED <<themePendingPromise, themePendingChild>>
        /\ themeCacheKey' = fetches[f].key
        /\ themeCacheResult' = result
        /\ fetches' = [fetches EXCEPT ![f].done = TRUE, ![f].val = result]
        /\ UNCHANGED <<themePendingKey, calls>>

\* a callback that clears the pending state without asking whose it is
ThemeCallbackClearsPending(f, err, stdout) ==
    LET themes == ParseHelpThemes(stdout)
    IN  /\ themePendingPromise' = 0
        /\ themePendingChild' = 0
        /\ IF err \/ stdout = <<>> \/ themes = <<>>
           THEN /\ fetches' = [fetches EXCEPT ![f].done = TRUE,
                                              ![f].val = FALLBACK_PLANTUML_THEMES]
                /\ UNCHANGED <<themeCacheKey, themeCacheResult>>
           ELSE /\ themeCacheKey' = fetches[f].key
                /\ themeCacheResult' = themes
                /\ fetches' = [fetches EXCEPT ![f].done = TRUE, ![f].val = themes]
        /\ UNCHANGED <<themePendingKey, calls>>

\* the execJava callback of fetch f
ThemeCallback(f, err, stdout) ==
    LET themes == ParseHelpThemes(stdout)
    IN  /\ IF themePendingPromise = f
           THEN themePendingPromise' = 0 /\ themePendingChild' = 0
           ELSE UNCHANGED <<themePendingPromise, themePendingChild>>
        /\ IF err \/ stdout = <<>> \/ themes = <<>>
           THEN /\ fetches' = [fetches EXCEPT ![f].done = TRUE,
                                              ![f].val = FALLBACK_PLANTUML_THEMES]
                /\ UNCHANGED <<themeCacheKey, themeCacheResult>>
           ELSE /\ themeCacheKey' = fetches[f].key
                /\ themeCacheResult' = themes
                /\ fetches' = [fetches EXCEPT ![f].done = TRUE, ![f].val = themes]
        /\ UNCHANGED <<themePendingKey, calls>>

\* an iteration that kills only the first tracked process before clearing the set
KillFirstActiveChild(os) ==
    [o \in 1..Len(os) |->
        IF os[o].tracked
        THEN IF \A p \in 1..(o - 1) : ~os[p].tracked
             THEN [os[o] EXCEPT !.kills = @ + 1, !.tracked = FALSE]
             ELSE [os[o] EXCEPT !.tracked = FALSE]
        ELSE os[o]]

\* for (const child of activeChildren) child.kill('SIGKILL'); activeChildren.clear()
KillActiveChildren(os) ==
    [o \in 1..Len(os) |->
        IF os[o].tracked THEN [os[o] EXCEPT !.kills = @ + 1, !.tracked = FALSE]
        ELSE os[o]]

-----------------------------------------------------------------------------
(* Inputs *)

BlockA == <<"A">>
BlockAPadded == <<"A", "\n">>      \* the same diagram followed by a blank line
BlockB == <<"B">>
BlockC == <<"C">>
BlockD == <<"D">>
BlockE == <<"E">>
BlockF == <<"F">>

\* what the environment can answer
SingleOutcomes(op) ==
    IF op.erred THEN {[code |-> "1", stdout |-> <<>>]}
    ELSE IF op.kills > 0
    THEN {[code |-> "0", stdout |-> SvgDoc(op.content)], [code |-> "null", stdout |-> <<>>]}
    ELSE {[code |-> "0", stdout |-> SvgDoc(op.content)],
          [code |-> "1", stdout |-> <<>>],
          [code |-> "1", stdout |-> ErrorSvgDoc(op.content)]}

AlignedOutput(uncached, f) ==
    Concat([j \in 1..Len(uncached) |->
               IF f[j] THEN SvgDoc(uncached[j].content)
               ELSE ErrorSvgDoc(uncached[j].content)])

DroppedOutput(uncached, d) ==
    Concat([j \in 1..Len(uncached) |->
               IF j = d THEN <<>> ELSE SvgDoc(uncached[j].content)])

BatchOutputs(uncached) ==
    {AlignedOutput(uncached, f) : f \in [1..Len(uncached) -> BOOLEAN]}
    \cup {DroppedOutput(uncached, d) : d \in 1..Len(uncached)}
    \cup {<<>>}

BatchOutcomes(op) ==
    IF op.erred THEN {[code |-> "1", stdout |-> <<>>]}
    ELSE IF op.kills > 0
    THEN {[code |-> "null", stdout |-> <<>>]}
         \cup {[code |-> "0", stdout |-> out] : out \in BatchOutputs(op.blocks)}
    ELSE {[code |-> c, stdout |-> out] : c \in {"0", "1"}, out \in BatchOutputs(op.blocks)}

HttpBodies(op) == {SvgDoc(op.content), <<"<html>", "error page">>}

-----------------------------------------------------------------------------
(* Actions *)

Null == [null |-> TRUE]

\* preview.ts before a panel is opened, and after resetState
ClosedPreview ==
    [panel |-> FALSE, lastConfig |-> Null, debounceTimer |-> 0, timers |-> <<>>,
     loadingRenderTimer |-> Null, lastDiagramContent |-> <<>>, doc |-> Null,
     started |-> <<>>, renders |-> <<>>, html |-> 0, panels |-> 0, opens |-> <<>>,
     firstRenderResolve |-> 0]

\* the state once the modules are loaded
InitProgram ==
    /\ cache = <<>>
    /\ serverCache = <<>>
    /\ ops = <<>>
    /\ sess = <<>>
    /\ renderAbortController = 0
    /\ themeCacheKey = <<>>
    /\ themeCacheResult = <<>>
    /\ themePendingKey = <<>>
    /\ themePendingPromise = 0
    /\ themePendingChild = 0
    /\ fetches = <<>>
    /\ calls = <<>>
    /\ accesses = <<>>
    /\ preview = ClosedPreview

\* no pure function is under test
NoCall == [fn |-> "none", args |-> <<>>, ret |-> <<>>, done |-> TRUE]

\* a call that has not been evaluated yet
Call(fn, args) == [fn |-> fn, args |-> args, ret |-> <<>>, done |-> FALSE]

Init == InitProgram /\ calc = NoCall

\* preview.ts renderPanel: cancel the previous render, then render the text
RenderPanelStart(mode, cfg, blocks) ==
    LET prev == renderAbortController
        s == Len(sess) + 1
        Rendered(h2) == IF prev # 0 THEN Resume(h2, prev) ELSE h2
        Aborted(h0) ==
            Rendered(RenderAll([h0 EXCEPT !.sess =
                         Append(@, NewSession(mode, TRUE, cfg, blocks))], s))
    IN  /\ Commit(Aborted(IF prev # 0 THEN AbortSignal(Heap, prev) ELSE Heap))
        /\ renderAbortController' = s

RenderPanel(mode, cfg, blocks) ==
    /\ RenderPanelStart(mode, cfg, blocks)
    /\ UNCHANGED themeVars

\* extension.ts runExport -> exportToHtml(filePath, config): no signal is passed.
\* Without a jar in local mode runExport shows an error and exports nothing.
RunExport(mode, cfg, blocks) ==
    LET s == Len(sess) + 1
        h1 == [Heap EXCEPT !.sess = Append(@, NewSession(mode, FALSE, cfg, blocks))]
    IN  /\ mode = "server" \/ cfg.jarPath # <<>>
        /\ Commit(RenderAll(h1, s))
        /\ UNCHANGED renderAbortController
        /\ UNCHANGED themeVars

\* preview.ts disposeEventHandlers: abort the current render and forget it
DisposeEventHandlers ==
    /\ renderAbortController # 0
    /\ Commit(Resume(AbortSignal(Heap, renderAbortController), renderAbortController))
    /\ renderAbortController' = 0
    /\ UNCHANGED themeVars

\* abort() on the controller of request s by whoever holds it
SignalAbort(s) ==
    /\ s \in 1..Len(sess)
    /\ sess[s].sig
    /\ sess[s].aborts < MaxAborts
    /\ Commit(Resume(AbortSignal(Heap, s), s))
    /\ UNCHANGED renderAbortController
    /\ UNCHANGED themeVars

ChildTimeout(o) ==
    /\ o \in 1..Len(ops)
    /\ ops[o].kind \in {"single", "batch"}
    /\ ops[o].timer
    /\ Commit(Resume(OnTimer(Heap, o), ops[o].s))
    /\ UNCHANGED renderAbortController
    /\ UNCHANGED themeVars

\* 'error' (the spawn failed).  On an operation that has settled the handler
\* only repeats what the close handler does, so it is left to SingleClose.
ChildError(o) ==
    /\ o \in 1..Len(ops)
    /\ ops[o].kind \in {"single", "batch"}
    /\ ~ops[o].closed
    /\ ~ops[o].erred
    /\ ~ops[o].settled
    /\ Commit(Resume(OnError(Heap, o), ops[o].s))
    /\ UNCHANGED renderAbortController
    /\ UNCHANGED themeVars

SingleClose(o) ==
    /\ o \in 1..Len(ops)
    /\ ops[o].kind = "single"
    /\ ~ops[o].closed
    /\ \E out \in SingleOutcomes(ops[o]) :
           Commit(Resume(OnCloseSingle(Heap, o, out.code, out.stdout, <<>>), ops[o].s))
    /\ UNCHANGED renderAbortController
    /\ UNCHANGED themeVars

\* the batch JVM ends with the exit code and the output of `out`
BatchCloseOf(o, out) ==
    /\ o \in 1..Len(ops)
    /\ ops[o].kind = "batch"
    /\ ~ops[o].closed
    /\ Commit(Resume(OnCloseBatch(Heap, o, out.code, out.stdout), ops[o].s))
    /\ UNCHANGED renderAbortController
    /\ UNCHANGED themeVars

BatchClose(o) == \E out \in BatchOutcomes(ops[o]) : BatchCloseOf(o, out)

\* fetch resolves with a response whose status is (ok) or is not a success
HttpResponseOf(o, ok) ==
    /\ o \in 1..Len(ops)
    /\ ops[o].kind = "http"
    /\ ops[o].phase = "fetch"
    /\ Commit(Resume(HttpOnResponse(Heap, o, ok), ops[o].s))
    /\ UNCHANGED renderAbortController
    /\ UNCHANGED themeVars

HttpResponse(o) == \E ok \in BOOLEAN : HttpResponseOf(o, ok)

\* response.text() resolves with the body svg
HttpBodyOf(o, svg) ==
    /\ o \in 1..Len(ops)
    /\ ops[o].kind = "http"
    /\ ops[o].phase = "body"
    /\ Commit(Resume(HttpOnBody(Heap, o, svg), ops[o].s))
    /\ UNCHANGED renderAbortController
    /\ UNCHANGED themeVars

HttpBody(o) == \E svg \in HttpBodies(ops[o]) : HttpBodyOf(o, svg)

\* fetch or the body read rejects with a network error
HttpFail(o) ==
    /\ o \in 1..Len(ops)
    /\ ops[o].kind = "http"
    /\ ops[o].phase \in {"fetch", "body"}
    /\ Commit(Resume(HttpReturn(Heap, o, ServerConnectionError), ops[o].s))
    /\ UNCHANGED renderAbortController
    /\ UNCHANGED themeVars

\* the request's own 15 s timer: controller.abort()
HttpTimeout(o) ==
    /\ o \in 1..Len(ops)
    /\ ops[o].kind = "http"
    /\ ops[o].timer
    /\ Commit(Resume(HttpAborted([Heap EXCEPT !.ops[o].timer = FALSE], o), ops[o].s))
    /\ UNCHANGED renderAbortController
    /\ UNCHANGED themeVars

-----------------------------------------------------------------------------
(* preview.ts: the panel's event handlers.  A Markdown text is its PlantUML  *)
(* blocks and the prose around them; the previewed document is open in an    *)
(* editor, so readFileContent resolves with its text in the same turn.       *)

RENDER_KEYS ==
    {"jarPath", "javaPath", "dotPath", "plantumlTheme", "plantumlScale", "previewTheme",
     "allowLocalImages", "allowHttpImages", "renderMode", "serverUrl", "mermaidTheme",
     "mermaidScale"}

ChangedRenderKeys(a, b) == {key \in RENDER_KEYS : a[key] # b[key]}

RECURSIVE JoinParts(_)
JoinParts(parts) ==
    IF parts = <<>> THEN <<>>
    ELSE IF Len(parts) = 1 THEN parts[1]
    ELSE parts[1] \o <<"\n---\n">> \o JoinParts(Tail(parts))

ExtractDiagramContent(text) ==
    JoinParts([i \in 1..Len(text.blocks) |-> Trim(text.blocks[i])])

\* PLANTUML_FENCE_TEST_RE.test(text)
HasDiagram(text) == text.blocks # <<>>

\* renderHtmlAsync: the scheduler the configuration selects
RenderModeOf(config) ==
    IF config.renderMode = "server" /\ config.serverUrl # <<>> THEN "server" ELSE "batch"

previewFrame ==
    <<themeCacheKey, themeCacheResult, themePendingKey, themePendingPromise,
      themePendingChild, fetches, calls, accesses, calc>>

\* fireDeferredWork: the one-shot firstRenderResolve (prefetchThemes is left
\* to ThemesRequested)
FireDeferredWork(pv) ==
    IF pv.firstRenderResolve = 0 THEN pv
    ELSE [pv EXCEPT !.opens[pv.firstRenderResolve].resolved = TRUE,
                    !.firstRenderResolve = 0]

\* the content of the fence token markdown-it makes of a block: the lines of
\* the fence, each with its line end
TokenContent(block) == block \o <<"\n">>

\* the fence rule (renderer.ts) over the fences of the source: a block whose
\* trimmed token content is not in preRenderedSvgs goes to renderToSvg, the
\* spawnSync path
FenceSync(preRenderedSvgs, blocks) ==
    {i \in 1..Len(blocks) : Trim(TokenContent(blocks[i])) \notin DOMAIN preRenderedSvgs}

\* renderHtmlAsync that goes on to md.render whatever the signal says
RenderHtmlAsyncNoAbortCheck(se) ==
    [ret |-> <<"<!DOCTYPE html>">>, rendered |-> TRUE,
     sync |-> FenceSync(se.results, se.blocks), aborted |-> se.sig /\ se.aborted]

\* renderHtmlAsync (exporter.ts) after `await renderAllLocal/renderAllServer`
\* of request se: '' if the signal is aborted, else md.render and buildHtml
RenderHtmlAsync(se) ==
    IF se.sig /\ se.aborted
    THEN [ret |-> <<>>, rendered |-> FALSE, sync |-> {}, aborted |-> TRUE]
    ELSE [ret |-> <<"<!DOCTYPE html>">>, rendered |-> TRUE,
          sync |-> FenceSync(se.results, se.blocks), aborted |-> FALSE]

\* renderPanel's stale check without the renderSeq and signal tests
WritesHtmlIfPanel(pv, ss, s) == pv.panel /\ pv.lastConfig # Null

\* renderPanel after its await: not (!panel || !lastConfig || renderSeq !== mySeq
\* || signal.aborted).  renderSeq counts the renderPanel calls, mySeq is s.
WritesHtml(pv, ss, s) ==
    /\ pv.panel
    /\ pv.lastConfig # Null
    /\ Len(ss) = s
    /\ ~ss[s].aborted

\* the rest of renderPanel for render s, whose renderHtmlAsync has returned:
\* panel.webview.html = finalHtml unless the render is stale, and the
\* .finally() of renderPanelWithLoading
RenderPanelEnd(pv, ss, s) ==
    LET returned == [pv EXCEPT !.renders[s].out = RenderHtmlAsync(ss[s])]
        written == IF WritesHtml(pv, ss, s) THEN [returned EXCEPT !.html = s] ELSE returned
    IN  IF pv.renders[s].loading THEN FireDeferredWork(written) ELSE written

\* the renders from s on that returned in this turn (old: the requests
\* before it), in the order of their calls
RECURSIVE RendersEnd(_, _, _, _)
RendersEnd(pv, old, ss, s) ==
    IF s > Len(ss) THEN pv
    ELSE IF ss[s].pc = "done" /\ (s > Len(old) \/ old[s].pc # "done")
    THEN RendersEnd(RenderPanelEnd(pv, ss, s), old, ss, s + 1)
    ELSE RendersEnd(pv, old, ss, s + 1)

\* renderPanel(text), called by the handler `by` that has left the module
\* state pv
RenderPanelOf(text, by, pv) ==
    IF ~pv.panel \/ pv.lastConfig = Null
    THEN /\ preview' = IF by \in {"open", "config"} THEN FireDeferredWork(pv) ELSE pv
         /\ UNCHANGED renderVars
    ELSE /\ RenderPanelStart(RenderModeOf(pv.lastConfig), pv.lastConfig, text.blocks)
         /\ preview' =
               RendersEnd(
                   [pv EXCEPT !.started = Append(@, by),
                              !.renders = Append(@, [out |-> Null,
                                                     loading |-> by \in {"open", "config"},
                                                     panel |-> pv.panels])],
                   sess, sess', 1)

\* clearTimeout(debounceTimer) without the timer being cleared
ClearDebounceForgotten(pv) == [pv EXCEPT !.debounceTimer = 0]

\* if (debounceTimer) { clearTimeout(debounceTimer); debounceTimer = null; }
ClearDebounce(pv) ==
    IF pv.debounceTimer = 0 THEN pv
    ELSE [pv EXCEPT !.timers[pv.debounceTimer] = [state |-> "cleared"],
                    !.debounceTimer = 0]

RenderPanelWithLoading(text, by, pv) ==
    IF ~pv.panel \/ pv.lastConfig = Null
    THEN preview' = pv /\ UNCHANGED renderVars
    ELSE IF ~HasDiagram(text)
    THEN RenderPanelOf(text, by, [pv EXCEPT !.loadingRenderTimer = Null])
    ELSE /\ preview' = [pv EXCEPT !.loadingRenderTimer = [text |-> text, by |-> by]]
         /\ UNCHANGED renderVars

\* openPreview(filePath, config) for a document with the text `text`
OpenPreview(config, text) ==
    /\ preview.doc # Null => text = preview.doc
    /\ RenderPanelWithLoading(text, "open",
           [ClearDebounce(preview) EXCEPT
                !.lastConfig = config,
                !.panel = TRUE,
                !.panels = IF preview.panel THEN @ ELSE @ + 1,
                !.html = IF preview.panel THEN @ ELSE 0,
                !.doc = text,
                !.opens = Append(FireDeferredWork(preview).opens,
                                 [resolved |-> FALSE, renderSeq |-> Len(sess)]),
                !.firstRenderResolve = Len(preview.opens) + 1,
                !.lastDiagramContent = ExtractDiagramContent(text)])
    /\ UNCHANGED previewFrame

\* panel.onDidDispose -> resetState(), disposeEventHandlers() included
ResetState ==
    /\ preview.panel
    /\ IF renderAbortController # 0
       THEN Commit(Resume(AbortSignal(Heap, renderAbortController), renderAbortController))
       ELSE Commit(Heap)
    /\ renderAbortController' = 0
    /\ preview' =
          RendersEnd(
              [ClearDebounce(FireDeferredWork(preview)) EXCEPT
                   !.panel = FALSE,
                   !.html = 0,
                   !.lastConfig = Null,
                   !.lastDiagramContent = <<>>,
                   !.loadingRenderTimer = Null],
              sess, sess', 1)
    /\ UNCHANGED previewFrame

\* 'close' of the batch JVM of a render of the panel, and what renderPanel
\* does once renderHtmlAsync has returned
PreviewBatchClose(o, out) ==
    /\ o \in 1..Len(ops)
    /\ ops[o].kind = "batch"
    /\ ~ops[o].closed
    /\ Commit(Resume(OnCloseBatch(Heap, o, out.code, out.stdout), ops[o].s))
    /\ UNCHANGED renderAbortController
    /\ preview' = RendersEnd(preview, sess, sess', 1)
    /\ UNCHANGED previewFrame

\* the 50 ms timer of renderPanelWithLoading: doRender
LoadingTimerFires ==
    /\ preview.loadingRenderTimer # Null
    /\ RenderPanelOf(preview.loadingRenderTimer.text, preview.loadingRenderTimer.by,
                     [preview EXCEPT !.loadingRenderTimer = Null])
    /\ UNCHANGED previewFrame

\* onDidSaveTextDocument for the previewed file
SaveTextDocument ==
    /\ preview.doc # Null
    /\ IF ~preview.panel THEN UNCHANGED <<preview, renderVars>>
       ELSE RenderPanelOf(preview.doc, "save",
                [ClearDebounce(preview) EXCEPT
                     !.lastDiagramContent = ExtractDiagramContent(preview.doc)])
    /\ UNCHANGED previewFrame

\* the handler that compares the delays the wrong way round
ChangeDelaySwapped(pv, text) ==
    IF ExtractDiagramContent(text) # pv.lastDiagramContent
    THEN pv.lastConfig.debounceNoPlantUmlMs
    ELSE pv.lastConfig.debouncePlantUmlMs

\* onDidChangeTextDocument: the delay of the new timer
ChangeDelay(pv, text) ==
    IF ExtractDiagramContent(text) # pv.lastDiagramContent
    THEN pv.lastConfig.debouncePlantUmlMs
    ELSE pv.lastConfig.debounceNoPlantUmlMs

\* onDidChangeTextDocument for the previewed file, whose text is now `text`
ChangeTextDocument(text) ==
    /\ preview.doc # Null
    /\ Len(preview.timers) < MaxTimers
    /\ LET pv == [preview EXCEPT !.doc = text]
           cleared == ClearDebounce(pv)
       IN  IF ~pv.panel \/ pv.lastConfig = Null THEN preview' = pv
           ELSE preview' =
                  [cleared EXCEPT
                      !.timers = Append(@, [text |-> text, state |-> "pending",
                                            diag |-> ExtractDiagramContent(text),
                                            delay |-> ChangeDelay(pv, text)]),
                      !.debounceTimer = Len(cleared.timers) + 1]
    /\ UNCHANGED renderVars
    /\ UNCHANGED previewFrame

\* a debounce timer expires
DebounceTimerFires(t) ==
    /\ t \in 1..Len(preview.timers)
    /\ preview.timers[t].state = "pending"
    /\ RenderPanelOf(preview.timers[t].text, "debounce",
           [preview EXCEPT !.timers[t] = [state |-> "fired"],
                           !.debounceTimer = 0,
                           !.lastDiagramContent = preview.timers[t].diag])
    /\ UNCHANGED previewFrame

\* updateConfig that re-renders whenever the configuration object changed
UpdateConfigAlwaysRenders(config) ==
    /\ IF ~preview.panel THEN UNCHANGED <<preview, renderVars>>
       ELSE RenderPanelWithLoading(preview.doc, "config",
                                   [preview EXCEPT !.lastConfig = config])
    /\ UNCHANGED previewFrame

\* configWatcher -> updateConfig(config)
UpdateConfig(config) ==
    /\ IF ~preview.panel THEN UNCHANGED <<preview, renderVars>>
       ELSE LET oldConfig == preview.lastConfig
                pv == [preview EXCEPT !.lastConfig = config]
                changed == ChangedRenderKeys(config, oldConfig)
            IN  IF oldConfig # Null /\ (changed = {"previewTheme"} \/ changed = {})
                THEN preview' = pv /\ UNCHANGED renderVars
                ELSE RenderPanelWithLoading(pv.doc, "config", pv)
    /\ UNCHANGED previewFrame

\* listThemesAsync(config) from the preview (prefetchThemes, the theme picker)
ThemesRequested(config) ==
    /\ Len(calls) < MaxThemeCalls
    /\ ListThemesAsync(config)
    /\ UNCHANGED renderVars
    /\ UNCHANGED <<accesses, calc, preview>>

\* what the discovery process can answer
HelpThemesOutput ==
    <<"The possible themes are", " :", "\n", " ", "amiga", "\n", "_none_", "\n",
      "\n", "mars", " ", "\n">>

ThemeOutputs ==
    {HelpThemesOutput, <<"The possible themes are", " :", "\n", "_none_", "\n">>,
     <<"Usage: java -jar plantuml.jar", "\n">>, <<>>}

ThemeFetchDone(f) ==
    /\ f \in 1..Len(fetches)
    /\ ~fetches[f].done
    /\ \/ ThemeCallback(f, TRUE, <<>>)
       \/ \E stdout \in ThemeOutputs : ThemeCallback(f, FALSE, stdout)
    /\ UNCHANGED renderVars
    /\ UNCHANGED <<accesses, calc, preview>>

\* plantuml.ts clearCache
ClearCache ==
    /\ cache' = LruClear(cache)
    /\ themeCacheKey' = <<>>
    /\ themeCacheResult' = <<>>
    /\ themePendingKey' = <<>>
    /\ themePendingPromise' = 0
    /\ fetches' = KillFetch(fetches, themePendingChild)
    /\ themePendingChild' = 0
    /\ ops' = KillActiveChildren(ops)
    /\ UNCHANGED <<serverCache, sess, renderAbortController, calls, accesses, calc,
                   preview>>

Modes == {"batch", "fanout", "server"}

ConfigsOf(mode) ==
    IF mode = "server" THEN {ServerConfig} ELSE {LocalConfig, NoJarConfig}

Requests == {<<BlockA>>}

\* Several requests, from the preview panel and from the export command
Next ==
    \/ \E mode \in Modes : \E cfg \in ConfigsOf(mode) : \E blocks \in Requests :
           Len(sess) < MaxSessions /\ RenderPanel(mode, cfg, blocks)
    \/ \E mode \in Modes : \E cfg \in ConfigsOf(mode) : \E blocks \in Requests :
           Len(sess) < MaxSessions /\ RunExport(mode, cfg, blocks)
    \/ DisposeEventHandlers
    \/ \E s \in 1..Len(sess) : SignalAbort(s)
    \/ \E o \in 1..Len(ops) : ChildTimeout(o)
    \/ \E o \in 1..Len(ops) : ChildError(o)
    \/ \E o \in 1..Len(ops) : SingleClose(o)
    \/ \E o \in 1..Len(ops) : BatchClose(o)
    \/ \E o \in 1..Len(ops) : HttpResponse(o)
    \/ \E o \in 1..Len(ops) : HttpBody(o)
    \/ \E o \in 1..Len(ops) : HttpFail(o)
    \/ \E o \in 1..Len(ops) : HttpTimeout(o)

Spec == Init /\ [][Next]_vars

\* One renderAllLocal (fan-out) or renderAllServer call with a signal
FanoutRequests ==
    {<<BlockA, BlockB, BlockA>>, <<BlockA, BlockAPadded>>,
     <<BlockA, BlockB, BlockC, BlockD>>}

ServerRequests ==
    {<<BlockA, BlockB, BlockA>>, <<BlockA, BlockAPadded>>,
     <<BlockA, BlockB, BlockC, BlockD, BlockE, BlockF>>}

NextFanout ==
    \/ \E blocks \in FanoutRequests :
           sess = <<>> /\ RenderPanel("fanout", LocalConfig, blocks)
    \/ \E blocks \in ServerRequests :
           sess = <<>> /\ RenderPanel("server", ServerConfig, blocks)
    \/ \E s \in 1..Len(sess) : SignalAbort(s)
    \/ \E o \in 1..Len(ops) : ChildTimeout(o)
    \/ \E o \in 1..Len(ops) : ChildError(o)
    \/ \E o \in 1..Len(ops) : SingleClose(o)
    \/ \E o \in 1..Len(ops) : HttpResponse(o)
    \/ \E o \in 1..Len(ops) : HttpBody(o)
    \/ \E o \in 1..Len(ops) : HttpFail(o)
    \/ \E o \in 1..Len(ops) : HttpTimeout(o)

SpecFanout == Init /\ [][NextFanout]_vars

\* One renderAllLocal (single batch) call with a signal
BatchRequests ==
    {<<BlockA, BlockB, BlockA>>, <<BlockA, BlockAPadded>>,
     <<BlockA, BlockB, BlockC, BlockD>>}

NextBatch ==
    \/ \E blocks \in BatchRequests :
           sess = <<>> /\ RenderPanel("batch", LocalConfig, blocks)
    \/ \E s \in 1..Len(sess) : SignalAbort(s)
    \/ \E o \in 1..Len(ops) : ChildTimeout(o)
    \/ \E o \in 1..Len(ops) : ChildError(o)
    \/ \E o \in 1..Len(ops) : SingleClose(o)
    \/ \E o \in 1..Len(ops) : BatchClose(o)

SpecBatch == Init /\ [][NextBatch]_vars

\* Theme discovery calls, their processes, and clearCache
ThemeConfigs ==
    {[jarPath |-> <<"plantuml.jar">>, javaPath |-> <<>>],
     [jarPath |-> <<"plantuml.jar">>, javaPath |-> <<"/opt/jdk/bin/java">>],
     [jarPath |-> <<>>, javaPath |-> <<>>]}

NextThemes ==
    \/ \E config \in ThemeConfigs : ThemesRequested(config)
    \/ \E f \in 1..Len(fetches) : ThemeFetchDone(f)
    \/ ClearCache

SpecThemes == Init /\ [][NextThemes]_vars

\* An LruCache of capacity LruCapacity under any sequence of get, set and clear
\* One renderAllServer call; the server answers with any status and any of
\* four bodies: an SVG document with an XML declaration, a bare <svg>
\* element, an XML document without <svg>, an HTML page
ServerBodies(op) ==
    {SvgDoc(op.content),
     <<"<svg">> \o op.content \o <<"</svg>">>,
     <<"<?xml ", "<error/>">>,
     <<"<html>", "error page">>}

ServerPanelRequests == {<<BlockA, BlockB, BlockC>>}

ServerRepeatRequests == {<<BlockA>>}

NextServer ==
    \/ \E blocks \in ServerPanelRequests :
           sess = <<>> /\ RenderPanel("server", ServerConfig, blocks)
    \/ \E blocks \in ServerRepeatRequests :
           Len(sess) = 1 /\ RenderPanel("server", ServerConfig, blocks)
    \/ \E s \in 1..Len(sess) : SignalAbort(s)
    \/ \E o \in 1..Len(ops) : \E ok \in BOOLEAN : HttpResponseOf(o, ok)
    \/ \E o \in 1..Len(ops) : \E svg \in ServerBodies(ops[o]) : HttpBodyOf(o, svg)
    \/ \E o \in 1..Len(ops) : HttpFail(o)
    \/ \E o \in 1..Len(ops) : HttpTimeout(o)

SpecServer == Init /\ [][NextServer]_vars

\* computeHash applied to two lists of fields; a field is any string, a
\* character of it one of two letters or U+0000
HashFields == UNION {[1..n -> {"a", "b", "\\0"}] : n \in 0..MaxFieldLen}

HashParts ==
    [1..2 -> HashFields] \cup [1..3 -> {f \in HashFields : Len(f) <= 1}]

InitHash ==
    /\ InitProgram
    /\ calc \in {Call("computeHash", <<p, q>>) : p \in HashParts, q \in HashParts}

ApplyComputeHash ==
    /\ calc.fn = "computeHash"
    /\ ~calc.done
    /\ calc' = [calc EXCEPT !.ret = <<ComputeHash(calc.args[1]), ComputeHash(calc.args[2])>>,
                            !.done = TRUE]
    /\ UNCHANGED <<renderVars, themeCacheKey, themeCacheResult, themePendingKey,
                   themePendingPromise, themePendingChild, fetches, calls, accesses,
                   preview>>

SpecHash == InitHash /\ [][ApplyComputeHash]_vars

\* The batch timeout of two batches of n and m uncached blocks.
MaxBatchSize == 12

InitTimeout ==
    /\ InitProgram
    /\ calc \in {Call("batchTimeout", <<n, m>>) : n \in 1..MaxBatchSize, m \in 1..MaxBatchSize}

ApplyBatchTimeout ==
    /\ calc.fn = "batchTimeout"
    /\ ~calc.done
    /\ calc' = [calc EXCEPT !.ret = <<BatchTimeout(calc.args[1]), BatchTimeout(calc.args[2])>>,
                            !.done = TRUE]
    /\ UNCHANGED <<renderVars, themeCacheKey, themeCacheResult, themePendingKey,
                   themePendingPromise, themePendingChild, fetches, calls, accesses,
                   preview>>

SpecTimeout == InitTimeout /\ [][ApplyBatchTimeout]_vars

\* The source excerpt of buildErrorMessage. A document is represented by its
\* number of lines; the excerpt is the sequence of what is appended to msg:
\* a source line (its 0-based index, highlighted or not) or the
\* skipped-lines marker (with the number it states).
HEAD == 5
CONTEXT_BEFORE == 15
CONTEXT_AFTER == 2

Max(a, b) == IF a >= b THEN a ELSE b

\* parseStdrpt: lineNumber=<reported>, 1-indexed -> 0-indexed
ParseStdrpt(reported) == [lineNumber |-> reported - 1]

\* renderLine(i)
RenderLine(i, lineNumber) == [kind |-> "line", i |-> i, highlight |-> (i = lineNumber)]

\* for (let i = from; i <= to; i++) renderLine(i)
RenderLines(from, to, lineNumber) ==
    [j \in 1..Max(0, to - from + 1) |-> RenderLine(from + j - 1, lineNumber)]

SkipMarker(skippedCount) == [kind |-> "skip", i |-> skippedCount, highlight |-> FALSE]

\* buildErrorMessage, parsed branch: the lines of the <pre> block
Excerpt(reported, nLines, lineOffset) ==
    LET lineNumber == ParseStdrpt(reported).lineNumber - lineOffset
        headEnd == Min(HEAD - 1, nLines - 1)
        ctxStart == Max(0, lineNumber - CONTEXT_BEFORE)
        ctxEnd == Min(nLines - 1, lineNumber + CONTEXT_AFTER)
        skipStart == headEnd + 1
        skipEnd == ctxStart - 1
        skipping == skipEnd >= skipStart + 2
    IN  IF lineNumber >= 0 /\ lineNumber < nLines
        THEN IF skipping
             THEN RenderLines(0, headEnd, lineNumber)
                  \o <<SkipMarker(skipEnd - skipStart + 1)>>
                  \o RenderLines(ctxStart, ctxEnd, lineNumber)
             ELSE RenderLines(0, ctxEnd, lineNumber)
        ELSE <<>>

MaxLines == 30

InitExcerpt ==
    /\ InitProgram
    /\ calc \in {Call("buildErrorMessage", <<reported, nLines, lineOffset>>) :
                    reported \in 1..(MaxLines + 2), nLines \in 1..MaxLines, lineOffset \in {0, 1}}

ApplyBuildErrorMessage ==
    /\ calc.fn = "buildErrorMessage"
    /\ ~calc.done
    /\ calc' = [calc EXCEPT !.ret = Excerpt(calc.args[1], calc.args[2], calc.args[3]),
                            !.done = TRUE]
    /\ UNCHANGED <<renderVars, themeCacheKey, themeCacheResult, themePendingKey,
                   themePendingPromise, themePendingChild, fetches, calls, accesses,
                   preview>>

SpecExcerpt == InitExcerpt /\ [][ApplyBuildErrorMessage]_vars

\* PlantUML custom Base64 encoding. Bytes are the numbers 0..255, a text is
\* a sequence of code points, an encoded string a sequence of characters.
PLANTUML_ALPHABET ==
    <<"0", "1", "2", "3", "4", "5", "6", "7", "8", "9", "A", "B", "C", "D", "E", "F",
      "G", "H", "I", "J", "K", "L", "M", "N", "O", "P", "Q", "R", "S", "T", "U", "V",
      "W", "X", "Y", "Z", "a", "b", "c", "d", "e", "f", "g", "h", "i", "j", "k", "l",
      "m", "n", "o", "p", "q", "r", "s", "t", "u", "v", "w", "x", "y", "z", "-", "_">>

\* Encode 3 bytes into 4 PlantUML Base64 characters
Encode3bytes(b1, b2, b3) ==
    LET c1 == b1 \div 4
        c2 == ((b1 % 4) * 16) + (b2 \div 16)
        c3 == ((b2 % 16) * 4) + (b3 \div 64)
        c4 == b3 % 64
    IN  <<PLANTUML_ALPHABET[c1 + 1], PLANTUML_ALPHABET[c2 + 1],
          PLANTUML_ALPHABET[c3 + 1], PLANTUML_ALPHABET[c4 + 1]>>

\* plantumlEncode that drops a final partial group
RECURSIVE PlantumlEncodeWholeGroups(_)
PlantumlEncodeWholeGroups(data) ==
    IF Len(data) < 3 THEN <<>>
    ELSE Encode3bytes(data[1], data[2], data[3])
         \o PlantumlEncodeWholeGroups(SubSeq(data, 4, Len(data)))

\* plantumlEncode: 3 bytes at a time, padding the final group with zeros
RECURSIVE PlantumlEncode(_)
PlantumlEncode(data) ==
    IF data = <<>> THEN <<>>
    ELSE LET len == Len(data)
             b1 == data[1]
             b2 == IF 2 <= len THEN data[2] ELSE 0
             b3 == IF 3 <= len THEN data[3] ELSE 0
         IN  Encode3bytes(b1, b2, b3) \o PlantumlEncode(SubSeq(data, 4, len))

\* Buffer.from(content, 'utf-8') for code points of the basic plane
RECURSIVE Utf8(_)
Utf8(content) ==
    IF content = <<>> THEN <<>>
    ELSE LET c == Head(content)
             bytes == IF c < 128 THEN <<c>>
                      ELSE IF c < 2048 THEN <<192 + (c \div 64), 128 + (c % 64)>>
                      ELSE <<224 + (c \div 4096), 128 + ((c \div 64) % 64), 128 + (c % 64)>>
         IN  bytes \o Utf8(Tail(content))

\* deflateRawSync: a raw deflate stream (RFC 1951) of the data, here one
\* final stored block: BFINAL=1 BTYPE=00, LEN, NLEN (its complement), data
DeflateRawSync(data) ==
    <<1, Len(data) % 256, Len(data) \div 256,
      255 - (Len(data) % 256), 255 - (Len(data) \div 256)>> \o data

\* encodePlantUml: UTF-8 encode -> raw deflate -> PlantUML custom Base64
EncodePlantUml(content) == PlantumlEncode(DeflateRawSync(Utf8(content)))

MaxBytes == 4
MaxChars == 3
EncoderBytes == {0, 90, 165, 255}
EncoderChars == {65, 233, 8364}

InitEncode ==
    /\ InitProgram
    /\ calc \in {Call("plantumlEncode", data) :
                    data \in UNION {[1..n -> EncoderBytes] : n \in 0..MaxBytes}}
           \cup {Call("encodePlantUml", content) :
                    content \in UNION {[1..n -> EncoderChars] : n \in 0..MaxChars}}

ApplyPlantumlEncode ==
    /\ calc.fn = "plantumlEncode"
    /\ ~calc.done
    /\ calc' = [calc EXCEPT !.ret = PlantumlEncode(calc.args), !.done = TRUE]
    /\ UNCHANGED <<renderVars, themeCacheKey, themeCacheResult, themePendingKey,
                   themePendingPromise, themePendingChild, fetches, calls, accesses,
                   preview>>

ApplyEncodePlantUml ==
    /\ calc.fn = "encodePlantUml"
    /\ ~calc.done
    /\ calc' = [calc EXCEPT !.ret = EncodePlantUml(calc.args), !.done = TRUE]
    /\ UNCHANGED <<renderVars, themeCacheKey, themeCacheResult, themePendingKey,
                   themePendingPromise, themePendingChild, fetches, calls, accesses,
                   preview>>

NextEncode == ApplyPlantumlEncode \/ ApplyEncodePlantUml

SpecEncode == InitEncode /\ [][NextEncode]_vars

\* the cache key of a block under a request's mode and configuration
RequestKey(mode, cfg, block) ==
    IF mode = "server"
    THEN CacheKey(ThemedContent(EnsureStartEndTags(Trim(block)), cfg), cfg)
    ELSE PrepareRenderContext(block, cfg).hash

\* One render request and a settings change or an edit that replaces one
\* field of it: the keys before and after
KeyBlocks ==
    {BlockA, BlockAPadded, BlockB, <<"@startuml", "\n", "A", "\n", "@enduml">>}

KeyFieldValues ==
    [block |-> KeyBlocks,
     jarPath |-> {<<"plantuml.jar">>, <<"other.jar">>},
     javaPath |-> {<<>>, <<"java">>, <<"/opt/java">>},
     dotPath |-> {<<>>, <<"dot">>, <<"/opt/dot">>},
     plantumlTheme |-> {<<>>, <<"default">>, <<"mars">>},
     serverUrl |-> {<<"https://server">>, <<"https://other">>},
     debouncePlantUmlMs |-> {100, 300}]

KeyRequests ==
    [block : KeyFieldValues.block, jarPath : KeyFieldValues.jarPath,
     javaPath : KeyFieldValues.javaPath, dotPath : KeyFieldValues.dotPath,
     plantumlTheme : KeyFieldValues.plantumlTheme, serverUrl : KeyFieldValues.serverUrl,
     debouncePlantUmlMs : KeyFieldValues.debouncePlantUmlMs]

InitKey ==
    /\ InitProgram
    /\ calc \in {Call("cacheKey", <<mode, req, req>>) :
                     mode \in {"local", "server"}, req \in KeyRequests}

\* the field is given a new value and the key is computed before and after
ChangeField(field, value) ==
    /\ calc.fn = "cacheKey"
    /\ ~calc.done
    /\ value # calc.args[2][field]
    /\ LET mode == calc.args[1]
           old == calc.args[2]
           new == [old EXCEPT ![field] = value]
       IN  calc' = [calc EXCEPT !.args = <<mode, old, new>>,
                                !.ret = <<RequestKey(mode, old, old.block),
                                          RequestKey(mode, new, new.block)>>,
                                !.done = TRUE]
    /\ UNCHANGED <<renderVars, themeCacheKey, themeCacheResult, themePendingKey,
                   themePendingPromise, themePendingChild, fetches, calls, accesses,
                   preview>>

NextKey ==
    \E field \in DOMAIN KeyFieldValues : \E value \in KeyFieldValues[field] :
        ChangeField(field, value)

SpecKey == InitKey /\ [][NextKey]_vars

\* The preview of one document: it is opened, edited, saved, the settings
\* change, timers expire and the renders' processes end
PreviewTexts ==
    {[blocks |-> <<BlockA>>, prose |-> "p"], [blocks |-> <<BlockA>>, prose |-> "q"],
     [blocks |-> <<BlockB>>, prose |-> "p"]}

\* a batch that was not killed renders every block
PreviewOutcomes(op) ==
    IF op.kills > 0 THEN {[code |-> "null", stdout |-> <<>>]}
    ELSE {[code |-> "0",
           stdout |-> AlignedOutput(op.blocks, [j \in 1..Len(op.blocks) |-> TRUE])]}

PreviewConfig ==
    [jarPath |-> <<"plantuml.jar">>, javaPath |-> <<"java">>, dotPath |-> <<"dot">>,
     plantumlTheme |-> <<"default">>, plantumlScale |-> "100%",
     previewTheme |-> "github-light", allowLocalImages |-> TRUE,
     allowHttpImages |-> FALSE, renderMode |-> "local",
     serverUrl |-> <<"https://server">>, mermaidTheme |-> "default",
     mermaidScale |-> "80%", debounceNoPlantUmlMs |-> 100, debouncePlantUmlMs |-> 300]

PreviewConfigs ==
    {PreviewConfig,
     [PreviewConfig EXCEPT !.debouncePlantUmlMs = 500],
     [PreviewConfig EXCEPT !.previewTheme = "github-dark"],
     [PreviewConfig EXCEPT !.plantumlTheme = <<"mars">>]}

NextPreview ==
    \/ \E text \in PreviewTexts :
           ~preview.panel /\ OpenPreview(PreviewConfig, text)
    \/ \E text \in PreviewTexts : ChangeTextDocument(text)
    \/ Len(sess) < MaxRenders /\ SaveTextDocument
    \/ \E t \in 1..Len(preview.timers) :
           Len(sess) < MaxRenders /\ DebounceTimerFires(t)
    \/ \E config \in PreviewConfigs : UpdateConfig(config)
    \/ Len(sess) < MaxRenders /\ LoadingTimerFires
    \/ \E o \in 1..Len(ops) : \E out \in PreviewOutcomes(ops[o]) : PreviewBatchClose(o, out)

SpecPreview == Init /\ [][NextPreview]_vars

LruKeys == {<<"k", n>> : n \in 1..(LruCapacity + 1)}

LruValues == {SvgDoc(BlockA), SvgDoc(BlockB)}

lruUnchanged ==
    <<serverCache, ops, sess, renderAbortController, themeCacheKey, themeCacheResult,
      themePendingKey, themePendingPromise, themePendingChild, fetches, calls, calc,
      preview>>

CacheGet(key) ==
    /\ Len(accesses) < MaxAccesses
    /\ cache' = LruGet(cache, key).map
    /\ accesses' = Append(accesses, [op |-> "get", k |-> key,
                                     ret |-> LruGet(cache, key).value])
    /\ UNCHANGED lruUnchanged

CacheSet(key, value) ==
    /\ Len(accesses) < MaxAccesses
    /\ cache' = LruSet(cache, LruCapacity, key, value)
    /\ accesses' = Append(accesses, [op |-> "set", k |-> key, ret |-> value])
    /\ UNCHANGED lruUnchanged

CacheClear ==
    /\ Len(accesses) < MaxAccesses
    /\ cache' = LruClear(cache)
    /\ accesses' = Append(accesses, [op |-> "clear", k |-> <<>>, ret |-> <<>>])
    /\ UNCHANGED lruUnchanged

NextLru ==
    \/ \E key \in LruKeys : CacheGet(key)
    \/ \E key \in LruKeys : \E value \in LruValues : CacheSet(key, value)
    \/ CacheClear

\* One renderAllLocal (fan-out or single batch) or renderAllServer call
NextSchedulers ==
    \/ \E blocks \in FanoutRequests :
           sess = <<>> /\ RenderPanel("fanout", LocalConfig, blocks)
    \/ \E blocks \in ServerRequests :
           sess = <<>> /\ RenderPanel("server", ServerConfig, blocks)
    \/ \E blocks \in BatchRequests :
           sess = <<>> /\ RenderPanel("batch", LocalConfig, blocks)
    \/ \E s \in 1..Len(sess) : SignalAbort(s)
    \/ \E o \in 1..Len(ops) : ChildTimeout(o)
    \/ \E o \in 1..Len(ops) : ChildError(o)
    \/ \E o \in 1..Len(ops) : SingleClose(o)
    \/ \E o \in 1..Len(ops) : BatchClose(o)
    \/ \E o \in 1..Len(ops) : HttpResponse(o)
    \/ \E o \in 1..Len(ops) : HttpBody(o)
    \/ \E o \in 1..Len(ops) : HttpFail(o)
    \/ \E o \in 1..Len(ops) : HttpTimeout(o)

SpecSchedulers == Init /\ [][NextSchedulers]_vars

\* The same call under the scheduling of the event loop: a timer that stays
\* armed expires (the setTimeout of renderToSvgAsync, spawnBatchJvm and
\* renderToSvgServer).  This is WF_vars(\E o : ChildTimeout(o)) and
\* WF_vars(\E o : HttpTimeout(o)), each written out as
\* []<>~ENABLED <<A>>_vars \/ []<><<A>>_vars with the guard of the handler for
\* ENABLED <<A>>_vars: the handler can always run and it disarms its timer.
TimerArmed == \E o \in 1..Len(ops) : ops[o].kind \in {"single", "batch"} /\ ops[o].timer

HttpTimerArmed == \E o \in 1..Len(ops) : ops[o].kind = "http" /\ ops[o].timer

TimersExpire ==
    /\ []<>(~TimerArmed) \/ []<><<\E o \in 1..Len(ops) : ChildTimeout(o)>>_vars
    /\ []<>(~HttpTimerArmed) \/ []<><<\E o \in 1..Len(ops) : HttpTimeout(o)>>_vars

FairSchedulers == SpecSchedulers /\ TimersExpire

SpecLru == Init /\ [][NextLru]_vars

\* An LruCache constructed with any capacity from 1 to LruCapacity (the
\* constructor's argument is kept in calc), under any sequence of get, set
\* and clear
InitCapacity ==
    /\ InitProgram
    /\ calc \in {[Call("LruCache", <<maxSize>>) EXCEPT !.done = TRUE] :
                     maxSize \in 1..LruCapacity}

SetWithCapacity(key, value) ==
    /\ calc.fn = "LruCache"
    /\ Len(accesses) < MaxAccesses
    /\ cache' = LruSet(cache, calc.args[1], key, value)
    /\ accesses' = Append(accesses, [op |-> "set", k |-> key, ret |-> value])
    /\ UNCHANGED lruUnchanged

NextCapacity ==
    \/ \E key \in LruKeys : CacheGet(key)
    \/ \E key \in LruKeys : \E value \in LruValues : SetWithCapacity(key, value)
    \/ CacheClear

SpecCapacity == InitCapacity /\ [][NextCapacity]_vars

\* The panel of one document: the preview is opened (again and again), the
\* panel is closed, the document is edited and saved, the theme setting
\* changes, the loading timer expires and the renders' processes end
MaxOpens == 3

NextPanel ==
    \/ \E text \in PreviewTexts :
           Len(preview.opens) < MaxOpens /\ OpenPreview(PreviewConfig, text)
    \/ ResetState
    \/ \E text \in PreviewTexts : ChangeTextDocument(text)
    \/ Len(sess) < MaxRenders /\ SaveTextDocument
    \/ UpdateConfig([PreviewConfig EXCEPT !.plantumlTheme = <<"mars">>])
    \/ Len(sess) < MaxRenders /\ LoadingTimerFires
    \/ \E o \in 1..Len(ops) : \E out \in PreviewOutcomes(ops[o]) : PreviewBatchClose(o, out)

SpecPanel == Init /\ [][NextPanel]_vars

\* The backend reading a -pipe stream: it emits one document for every
\* @start...@end diagram of the stream, in the order of the stream, whatever
\* the block boundaries of the caller were
EndTags == {"@enduml", "@endmindmap"}

RECURSIVE PipeDiagrams(_, _, _)
PipeDiagrams(stream, cur, open) ==
    IF stream = <<>> THEN <<>>
    ELSE IF ~open
    THEN IF Head(stream) \in StartTags
         THEN PipeDiagrams(Tail(stream), <<Head(stream)>>, TRUE)
         ELSE PipeDiagrams(Tail(stream), cur, FALSE)
    ELSE IF Head(stream) \in EndTags
    THEN <<Append(cur, Head(stream))>> \o PipeDiagrams(Tail(stream), <<>>, FALSE)
    ELSE PipeDiagrams(Tail(stream), Append(cur, Head(stream)), TRUE)

PlantumlPipe(stream) ==
    LET diagrams == PipeDiagrams(stream, <<>>, FALSE)
    IN  Concat([j \in 1..Len(diagrams) |-> SvgDoc(diagrams[j])])

\* a fence that opens a diagram and does not close it, and a fence that holds
\* two diagrams
BlockOpen == <<"@startuml", "\n", "P">>
BlockTwo ==
    <<"@startuml", "\n", "Q", "\n", "@enduml", "\n", "@startuml", "\n", "R", "\n", "@enduml">>

AlignRequests ==
    {<<BlockA, BlockB, BlockC>>, <<BlockOpen, BlockB>>, <<BlockB, BlockTwo>>,
     <<BlockOpen, BlockB, BlockTwo>>}

\* 'close' of the batch JVM after it has rendered every diagram of its stdin
PipeClose(o) ==
    /\ ops[o].kind = "batch"
    /\ ~ops[o].erred
    /\ BatchCloseOf(o, [code |-> "0", stdout |-> PlantumlPipe(ops[o].content)])

\* One preview render in batch mode of fences that are or are not one whole
\* diagram each
NextAlign ==
    \/ \E blocks \in AlignRequests :
           sess = <<>> /\ RenderPanel("batch", LocalConfig, blocks)
    \/ \E s \in 1..Len(sess) : SignalAbort(s)
    \/ \E o \in 1..Len(ops) : ChildTimeout(o)
    \/ \E o \in 1..Len(ops) : ChildError(o)
    \/ \E o \in 1..Len(ops) : SingleClose(o)
    \/ \E o \in 1..Len(ops) : PipeClose(o)

SpecAlign == Init /\ [][NextAlign]_vars

\* One render request (an export by fan-out, or a preview by batch), one theme
\* discovery call, and clearCache at any time
ResetRequests == {<<BlockA, BlockB, BlockC>>}

NextReset ==
    \/ \E blocks \in ResetRequests :
           sess = <<>> /\ RunExport("fanout", LocalConfig, blocks)
    \/ sess = <<>> /\ RenderPanel("batch", LocalConfig, <<BlockA, BlockB>>)
    \/ calls = <<>> /\ ThemesRequested(LocalConfig)
    \/ \E f \in 1..Len(fetches) : ThemeFetchDone(f)
    \/ \E o \in 1..Len(ops) : ChildTimeout(o)
    \/ \E o \in 1..Len(ops) : ChildError(o)
    \/ \E o \in 1..Len(ops) : SingleClose(o)
    \/ \E o \in 1..Len(ops) : BatchClose(o)
    \/ ClearCache

SpecReset == Init /\ [][NextReset]_vars

-----------------------------------------------------------------------------
(* Properties *)

\* the key -> value pairs of an LruCache, whatever their order of use
Entries(map) == {<<map[i].k, map[i].v>> : i \in 1..Len(map)}

LocalOps == {o \in 1..Len(ops) : ops[o].kind \in {"single", "batch"}}

\* the operation resolved to an error, timeout or cancellation result
\* (a batch process: its promise was rejected)
OpFailed(op) ==
    /\ op.settled
    /\ IF op.kind = "batch" THEN IsError(op.val) ELSE ~IsSvgBody(op.val)

\* the pairs that operation o, having succeeded, puts into a cache
Produced(o) ==
    LET op == ops[o]
        svgs == SplitSvgOutput(op.val)
    IN  IF ~op.settled \/ OpFailed(op) THEN {}
        ELSE IF op.kind # "batch" THEN {<<op.hash, op.val>>}
        ELSE IF Len(svgs) # Len(op.blocks) THEN {}
        ELSE {<<op.blocks[j].hash, svgs[j]>> :
                 j \in {i \in 1..Len(svgs) : ~IsErrorSvg(svgs[i])}}

\* C1 (as the code has it): the caches hold only what operations that
\* succeeded produced; an operation that resolves to an error, a timeout or a
\* cancellation result creates or changes no cache entry; and a request for a
\* key that has no entry starts a backend operation for it.  A batch process
\* counts as succeeded when its promise resolves with output, whatever its
\* exit code.
C1_OnlySuccessfulRendersCached ==
    /\ [](Entries(cache) \cup Entries(serverCache)
              \subseteq UNION {Produced(o) : o \in 1..Len(ops)})
    /\ [][/\ \A o \in 1..Len(ops) :
                (~ops[o].settled /\ OpFailed(ops'[o]))
                    => /\ Entries(cache') = Entries(cache)
                       /\ Entries(serverCache') = Entries(serverCache)
          /\ Len(sess') > Len(sess) =>
                LET se == sess'[Len(sess')]
                    key == RequestKey(se.mode, se.cfg, Head(se.blocks))
                IN  (/\ se.mode = "server" \/ se.cfg.jarPath # <<>>
                     /\ ~LruHas(cache, key)
                     /\ ~LruHas(serverCache, key))
                        => Len(ops') = Len(ops) + 1]_vars

\* C1: an operation has failed, the caches are empty, and a later request
\* for the same key has its own backend operation
C1_Witness ==
    \E o1 \in 1..Len(ops) : \E o2 \in 1..Len(ops) :
        /\ o1 < o2
        /\ ops[o1].kind = "single" /\ ops[o2].kind = "single"
        /\ ops[o1].hash = ops[o2].hash
        /\ ops[o1].s # ops[o2].s
        /\ ops[o1].code = "1"
        /\ OpFailed(ops[o1])
        /\ cache = <<>>

\* C1 as stated: no operation that ends in a non-zero exit, a spawn error, a
\* timeout, a cancellation, an HTTP error or an unexpected body creates or
\* changes a cache entry
C1_AsStated ==
    [][\A o \in 1..Len(ops) :
          (/\ ~ops[o].settled
           /\ ops'[o].settled
           /\ IF ops[o].kind = "http" THEN ~IsSvgBody(ops'[o].val)
              ELSE ops'[o].code # "0")
              => /\ Entries(cache') = Entries(cache)
                 /\ Entries(serverCache') = Entries(serverCache)]_vars

\* the backend operations of request s that have not settled
InFlight(s) == {o \in 1..Len(ops) : ops[o].s = s /\ ~ops[o].settled}

\* C2 as stated: within one scheduler request, blocks whose trimmed text is
\* identical cause at most one backend invocation, and the returned map has
\* one key per distinct trimmed block
C2_AsStated ==
    \A s \in 1..Len(sess) :
        /\ \A o1 \in 1..Len(ops) : \A o2 \in 1..Len(ops) :
               (/\ o1 # o2
                /\ ops[o1].s = s
                /\ ops[o2].s = s)
                   => ops[o1].trimmed # ops[o2].trimmed
        /\ (sess[s].pc = "done" /\ ~sess[s].aborted)
               => DOMAIN sess[s].results
                      = {Trim(sess[s].blocks[i]) : i \in 1..Len(sess[s].blocks)}

\* C7: during one batchRender call the operations in flight never exceed
\* the concurrency limit, 3 for local processes and 5 for server requests
C7_BoundedConcurrency ==
    \A s \in 1..Len(sess) :
        Cardinality(InFlight(s))
            <= IF sess[s].mode = "server" THEN 5 ELSE 3

\* C7: five server requests are in flight while a sixth block waits
C7_Witness ==
    \E s \in 1..Len(sess) :
        /\ sess[s].mode = "server"
        /\ Len(sess[s].uniq) = 6
        /\ Cardinality(InFlight(s)) = 5

\* C8: an operation of a later group exists only when every operation of
\* the earlier groups of the same batchRender call has settled
C8_GroupsInSequence ==
    \A o1 \in 1..Len(ops) : \A o2 \in 1..Len(ops) :
        (ops[o1].s = ops[o2].s /\ ops[o1].grp < ops[o2].grp) => ops[o1].settled

\* C8: the second group is running after a first group in which one
\* operation succeeded, one failed and one was stopped by its timeout
C8_Witness ==
    \E o \in 1..Len(ops) :
        /\ ops[o].grp = 2
        /\ ~ops[o].settled
        /\ \E o1 \in 1..Len(ops) : ops[o1].grp = 1 /\ ops[o1].code = "0"
        /\ \E o1 \in 1..Len(ops) : ops[o1].grp = 1 /\ ops[o1].code = "1"
        /\ \E o1 \in 1..Len(ops) : ops[o1].grp = 1 /\ ops[o1].val = TimedOutError

SinglesOf(s) == {o \in 1..Len(ops) : ops[o].s = s /\ ops[o].kind = "single"}

BatchesOf(s) == {o \in 1..Len(ops) : ops[o].s = s /\ ops[o].kind = "batch"}

\* what the fan-out over the blocks of request s gives: one key per trimmed
\* block, one individual invocation per uncached block, each value the result
\* of the block's own invocation, and nothing in the cache but what those
\* invocations produced
FallbackAsFanout(s) ==
    LET se == sess[s]
        un == se.uncached
    IN  /\ DOMAIN se.results = {Trim(se.blocks[i]) : i \in 1..Len(se.blocks)}
        /\ Cardinality(SinglesOf(s)) = Len(un)
        /\ \A j \in 1..Len(un) :
               \E o \in SinglesOf(s) :
                   /\ ops[o].trimmed = un[j].trimmed
                   /\ ops[o].settled
                   /\ se.results[un[j].trimmed] = ops[o].val
        /\ Entries(cache) \subseteq UNION {Produced(o) : o \in SinglesOf(s)}

\* C3 (as the code has it): when the batch output splits into a number of
\* documents other than the number of uncached blocks and the request is not
\* cancelled, the batch output is neither cached nor returned, every uncached
\* block gets its own individual invocation, and the map is the fan-out's
C3_MismatchFallsBack ==
    \A s \in 1..Len(sess) :
        (sess[s].pc = "done" /\ sess[s].fallback = "mismatch" /\ ~sess[s].aborted)
            => FallbackAsFanout(s)

\* C3: four blocks, three documents, four individual invocations, four entries
C3_Witness ==
    \E s \in 1..Len(sess) :
        /\ sess[s].pc = "done" /\ sess[s].fallback = "mismatch" /\ ~sess[s].aborted
        /\ Len(sess[s].uncached) = 4
        /\ \E o \in BatchesOf(s) : Len(SplitSvgOutput(ops[o].val)) = 3
        /\ Cardinality(SinglesOf(s)) = 4
        /\ Cardinality(DOMAIN sess[s].results) = 4

\* C3 as stated: whenever the number of documents differs from the number of
\* uncached blocks, every uncached block is rendered individually and the map
\* has the keys and values of the fan-out
C3_AsStated ==
    \A s \in 1..Len(sess) :
        (sess[s].pc = "done" /\ sess[s].fallback = "mismatch") => FallbackAsFanout(s)

\* request s is cancelled in this step
Cancels(s) == sess[s].sig /\ ~sess[s].aborted /\ sess'[s].aborted

\* the promise of a cancelled process: renderToSvgAsync resolves to the empty
\* string, spawnBatchJvm rejects with Error('aborted')
CancelledValue(op) == IF op.kind = "batch" THEN ErrorObj("aborted") ELSE Cancelled

\* operation o was settled by the cancellation of its request
WasCancelled(o) ==
    /\ ops[o].settled
    /\ sess[ops[o].s].aborted
    /\ ops[o].val = CancelledValue(ops[o])

\* C4 (as the code has it): when its request is cancelled while a local
\* process is in flight, the process is sent one SIGKILL and its promise
\* settles at once with the cancellation result (the empty string for a
\* single render, the rejection Error('aborted') for a batch process, which
\* renderBatchLocal absorbs), never a timeout or content error; the result
\* stays as it is and nothing is cached for the operation whatever its
\* process does afterwards
C4_CancelKillsAndResolves ==
    [][\A o \in LocalOps :
          /\ (~ops[o].settled /\ Cancels(ops[o].s))
                => /\ ops'[o].settled
                   /\ ops'[o].kills = ops[o].kills + 1
                   /\ ops'[o].val = CancelledValue(ops[o])
                   /\ Entries(cache') = Entries(cache)
          /\ WasCancelled(o)
                => /\ ops'[o].val = ops[o].val
                   /\ ops'[o] # ops[o] => Entries(cache') = Entries(cache)
                   /\ ops'[o].code = ""]_vars

\* C4: a cancelled single render whose killed process has since closed
C4_Witness ==
    \E o \in LocalOps :
        /\ ops[o].kind = "single"
        /\ WasCancelled(o)
        /\ ops[o].val = Cancelled
        /\ ops[o].kills = 1
        /\ ops[o].closed
        /\ cache = <<>>

\* C4 as stated: the pending operation of every local process whose request
\* is cancelled resolves to the empty string
C4_AsStated ==
    [][\A o \in LocalOps :
          (~ops[o].settled /\ Cancels(ops[o].s))
              => /\ ops'[o].settled
                 /\ ops'[o].kills = ops[o].kills + 1
                 /\ ops'[o].val = Cancelled
                 /\ Entries(cache') = Entries(cache)]_vars

\* C5: every operation settles at most once and keeps its value; a second
\* abort() changes no operation and no cache; no abort() changes a cache; and
\* no kill is sent to a process that has closed or failed to spawn, nor
\* anything done to a request that has returned
C5_CancellationIdempotent ==
    /\ [](\A o \in 1..Len(ops) :
             ops[o].settles = (IF ops[o].settled THEN 1 ELSE 0))
    /\ [][/\ \A o \in 1..Len(ops) :
                /\ ops[o].settled
                      => /\ ops'[o].settled
                         /\ ops'[o].val = ops[o].val
                /\ (ops[o].closed \/ ops[o].erred \/ ops[o].phase = "done")
                      => ops'[o].kills = ops[o].kills
          /\ \A s \in 1..Len(sess) :
                /\ sess'[s].aborts > sess[s].aborts
                      => /\ Entries(cache') = Entries(cache)
                         /\ Entries(serverCache') = Entries(serverCache)
                /\ (sess'[s].aborts > sess[s].aborts /\ sess[s].aborted)
                      => \A o \in 1..Len(ops) : ops[o].s = s => ops'[o] = ops[o]]_vars

\* C5: a request aborted twice after its process had exited with code 0
C5_Witness ==
    \E o \in LocalOps :
        /\ ops[o].code = "0"
        /\ ops[o].kills = 0
        /\ ops[o].settles = 1
        /\ sess[ops[o].s].aborts = 2
        /\ cache # <<>>

\* C6 as stated: at any time at most one render request has local processes
\* in flight
C6_AsStated ==
    Cardinality({s \in 1..Len(sess) : InFlight(s) \cap LocalOps # {}}) <= 1

\* the process of operation o closes in this step with a non-zero exit code
\* and settles the operation
ExitsNonZero(o) ==
    /\ ~ops[o].settled
    /\ ops'[o].settled
    /\ ops'[o].code \notin {"", "0"}

\* C10 (as the code has it): the output of a single-render process that exits
\* non-zero is never cached; a batch process that exits non-zero with output
\* that splits into one document per uncached block has the documents that
\* are not error documents cached, and nothing else of it
C10_NonZeroExitCaching ==
    [][\A o \in LocalOps :
          ExitsNonZero(o)
              => IF ops[o].kind = "single"
                 THEN Entries(cache') = Entries(cache)
                 ELSE Entries(cache') = Entries(cache) \cup Produced(o)']_vars

\* C10: a batch process has exited with code 1; its good documents are in
\* the cache and its error document is not
C10_Witness ==
    \E o \in LocalOps :
        /\ ops[o].kind = "batch"
        /\ ops[o].code = "1"
        /\ Produced(o) # {}
        /\ Produced(o) \subseteq Entries(cache)
        /\ Cardinality(Produced(o)) < Len(ops[o].blocks)
        /\ Len(cache) = Cardinality(Produced(o))

\* C10 as stated: no output of a local process that exits non-zero is written
\* to the cache, single or batch
C10_AsStated ==
    [][\A o \in LocalOps : ExitsNonZero(o) => Entries(cache') = Entries(cache)]_vars

BatchFailures ==
    {ErrorObj("Timed out"), ErrorObj("ENOENT"), ErrorObj("Process exited with code")}

BatchMatched(s, o) ==
    /\ sess[s].pc = "done"
    /\ ops[o].settled
    /\ ~IsError(ops[o].val)
    /\ Len(SplitSvgOutput(ops[o].val)) = Len(sess[s].uncached)

\* block j of the batch of request s was re-rendered by its own invocation,
\* and the map holds that invocation's result
Rerendered(s, j) ==
    LET t == sess[s].uncached[j].trimmed
    IN  /\ t \in DOMAIN sess[s].results
        /\ \E r \in SinglesOf(s) :
               /\ ops[r].trimmed = t
               /\ ops[r].settled
               /\ sess[s].results[t] = ops[r].val

\* C12 (as the code has it): in a batch whose document count matches, a
\* document detected as an error document is neither cached nor returned;
\* unless the request is cancelled first, its block is re-rendered by an
\* individual invocation and the map holds that invocation's result; every
\* other block keeps its batch output and has no invocation of its own
C12_ErrorDocumentsRerendered ==
    \A s \in 1..Len(sess) : \A o \in BatchesOf(s) :
        BatchMatched(s, o) =>
            LET un == sess[s].uncached
                svgs == SplitSvgOutput(ops[o].val)
            IN  \A j \in 1..Len(un) :
                    IF IsErrorSvg(svgs[j])
                    THEN /\ <<un[j].hash, svgs[j]>> \notin Entries(cache)
                         /\ un[j].trimmed \in DOMAIN sess[s].results
                                => sess[s].results[un[j].trimmed] # svgs[j]
                         /\ ~sess[s].aborted => Rerendered(s, j)
                    ELSE /\ un[j].trimmed \in DOMAIN sess[s].results
                         /\ sess[s].results[un[j].trimmed] = svgs[j]
                         /\ ~\E r \in SinglesOf(s) : ops[r].trimmed = un[j].trimmed

\* C12: of four documents two were error documents; their two blocks were
\* re-rendered individually and the other two keep their batch output
C12_Witness ==
    \E s \in 1..Len(sess) : \E o \in BatchesOf(s) :
        /\ BatchMatched(s, o)
        /\ ~sess[s].aborted
        /\ Len(sess[s].uncached) = 4
        /\ Cardinality({j \in 1..4 : IsErrorSvg(SplitSvgOutput(ops[o].val)[j])}) = 2
        /\ Cardinality(SinglesOf(s)) = 2
        /\ Len(cache) = 2
        /\ Cardinality(DOMAIN sess[s].results) = 4

\* C12 as stated: in a batch whose document count matches, the block of
\* every error document is re-rendered by an individual invocation and the
\* map holds that invocation's result
C12_AsStated ==
    \A s \in 1..Len(sess) : \A o \in BatchesOf(s) :
        BatchMatched(s, o) =>
            \A j \in 1..Len(sess[s].uncached) :
                IsErrorSvg(SplitSvgOutput(ops[o].val)[j]) => Rerendered(s, j)

HttpOps == {o \in 1..Len(ops) : ops[o].kind = "http"}

\* C13: a server request in flight whose external signal is aborted returns
\* the empty string; one whose own timer fires while the external signal is
\* not aborted returns the 'request timed out' error; the two differ, neither
\* step changes the server cache, and the request, having returned, does
\* nothing more
C13_CancelVersusTimeout ==
    /\ Cancelled # ServerTimedOutError
    /\ [][\A o \in HttpOps :
             /\ (~ops[o].settled /\ Cancels(ops[o].s))
                   => /\ ops'[o].settled
                      /\ ops'[o].val = Cancelled
                      /\ serverCache' = serverCache
             /\ (~ops[o].settled /\ ~SigAborted(Heap, ops[o].s) /\ HttpTimeout(o))
                   => /\ ops'[o].settled
                      /\ ops'[o].val = ServerTimedOutError
                      /\ serverCache' = serverCache
             /\ ops[o].settled => ops'[o] = ops[o]]_vars

\* C13: of the requests of one group, one was stopped by its own timer and
\* another by the external signal; nothing is cached
C13_Witness ==
    \E o1 \in HttpOps : \E o2 \in HttpOps :
        /\ ops[o1].s = ops[o2].s
        /\ ops[o1].settled /\ ops[o1].val = ServerTimedOutError
        /\ ops[o2].settled /\ ops[o2].val = Cancelled
        /\ sess[ops[o2].s].aborted
        /\ serverCache = <<>>

SingleOps == {o \in 1..Len(ops) : ops[o].kind = "single"}

\* the content errors a single render can resolve to (its stderr is empty here)
ContentErrors ==
    {BuildErrorMessage(<<>>, <<>>, lineOffset, exitCode) :
        lineOffset \in {0, 1}, exitCode \in {1, -1}}

\* C14: the timer of a single render is set to 15 s; when it fires on a
\* render that has not settled (its process has neither closed nor errored
\* and the request is not cancelled), the process is sent SIGKILL and the
\* render resolves to the timed-out execution error, which is neither the
\* cancelled result nor a content error; the value stays and nothing is
\* cached for it, not even when the process then closes with exit code 0
C14_TimeoutKillsAndReports ==
    /\ TimedOutError \notin {Cancelled} \cup ContentErrors
    /\ [](\A o \in SingleOps :
             /\ ops[o].timeout = 15000
             /\ ~ops[o].settled
                   => ~ops[o].closed /\ ~ops[o].erred /\ ~SigAborted(Heap, ops[o].s))
    /\ [][\A o \in SingleOps :
             /\ (~ops[o].settled /\ ChildTimeout(o))
                   => /\ ops'[o].settled
                      /\ ops'[o].kills = ops[o].kills + 1
                      /\ ops'[o].val = TimedOutError
                      /\ cache' = cache
             /\ (ops[o].settled /\ ops[o].val = TimedOutError)
                   => /\ ops'[o].val = TimedOutError
                      /\ ops'[o] # ops[o] => cache' = cache
                      /\ Commit(Resume(OnCloseSingle(Heap, o, "0", SvgDoc(ops[o].content),
                                                     <<>>), ops[o].s))
                            => cache' = cache /\ sess' = sess]_vars

\* C14: a render was stopped by its timer, its killed process has closed, the
\* request was not cancelled, and the cache is empty
C14_Witness ==
    \E o \in SingleOps :
        /\ ops[o].settled
        /\ ops[o].val = TimedOutError
        /\ ops[o].kills = 1
        /\ ops[o].closed
        /\ ~sess[ops[o].s].aborted
        /\ cache = <<>>

LruKeysOf(map) == {map[i].k : i \in 1..Len(map)}

LruValueOf(map, key) == map[LruIndex(map, key)].v

\* the position in the history of the last get or set of a key
LastAccess(key) ==
    LET at == {i \in 1..Len(accesses) : accesses[i].k = key /\ accesses[i].op # "clear"}
    IN  IF at = {} THEN 0 ELSE CHOOSE i \in at : \A j \in at : j <= i

\* the key of the cache whose last get hit or set is the oldest
LeastRecentlyAccessed ==
    CHOOSE key \in LruKeysOf(cache) :
        \A other \in LruKeysOf(cache) : LastAccess(key) <= LastAccess(other)

\* C15: the cache never holds more than its capacity; a set of a key not
\* present while the cache is full removes the entry whose last access (get
\* hit or set) is the oldest and no other; any other set removes nothing; a
\* get removes nothing and returns the value stored, or undefined; the
\* entries that stay keep their values
C15_LruEviction ==
    /\ [](/\ Len(cache) <= CACHE_MAX_SIZE
          /\ accesses # <<>> => Len(cache) <= LruCapacity
          /\ Cardinality(LruKeysOf(cache)) = Len(cache))
    /\ [][Len(accesses') = Len(accesses) + 1 =>
             LET a == accesses'[Len(accesses')]
                 kept == LruKeysOf(cache) \cap LruKeysOf(cache')
             IN  /\ \A key \in kept \ {a.k} :
                        LruValueOf(cache', key) = LruValueOf(cache, key)
                 /\ (a.op = "set" /\ ~LruHas(cache, a.k) /\ Len(cache) = LruCapacity)
                       => /\ LruKeysOf(cache')
                                = (LruKeysOf(cache) \ {LeastRecentlyAccessed}) \cup {a.k}
                          /\ Len(cache') = LruCapacity
                 /\ (a.op = "set" /\ (LruHas(cache, a.k) \/ Len(cache) < LruCapacity))
                       => LruKeysOf(cache') = LruKeysOf(cache) \cup {a.k}
                 /\ a.op = "set" => LruValueOf(cache', a.k) = a.ret
                 /\ a.op = "get"
                       => /\ LruKeysOf(cache') = LruKeysOf(cache)
                          /\ a.ret = IF LruHas(cache, a.k) THEN LruValueOf(cache, a.k)
                                     ELSE Undefined
                          /\ LruHas(cache, a.k)
                                => LruValueOf(cache', a.k) = LruValueOf(cache, a.k)]_vars

\* C15: k1, k2 and k3 were set, k1 was read, and the set of k4 then evicted
\* k2, the least recently accessed, while k1 survived
C15_Witness ==
    /\ Len(accesses) = 5
    /\ \A i \in 1..3 : accesses[i].op = "set" /\ accesses[i].k = <<"k", i>>
    /\ accesses[4].op = "get" /\ accesses[4].k = <<"k", 1>>
    /\ accesses[5].op = "set" /\ accesses[5].k = <<"k", 4>>
    /\ LruKeysOf(cache) = {<<"k", 1>>, <<"k", 3>>, <<"k", 4>>}

\* request s has returned a rendered output for `block`
ReturnedOutput(s, block) ==
    /\ sess[s].pc = "done"
    /\ Trim(block) \in DOMAIN sess[s].results
    /\ IsSvgBody(sess[s].results[Trim(block)])

\* C16: a request for a (block, config) pair issued after an earlier request
\* for the same pair has returned a rendered output (nothing clears the
\* cache in between) starts no process and no HTTP request and returns the
\* identical string at once
C16_CacheDeterminism ==
    [][Len(sess') > Len(sess) =>
          LET s2 == Len(sess')
              block == Head(sess'[s2].blocks)
          IN  \A s1 \in 1..Len(sess) :
                  (/\ ReturnedOutput(s1, block)
                   /\ sess'[s2].mode = "server" \/ sess'[s2].cfg.jarPath # <<>>
                   /\ RequestKey(sess[s1].mode, sess[s1].cfg, block)
                          = RequestKey(sess'[s2].mode, sess'[s2].cfg, block))
                      => /\ Len(ops') = Len(ops)
                         /\ sess'[s2].pc = "done"
                         /\ sess'[s2].results = sess[s1].results]_vars

\* C16: the second of two requests for the same block and configuration has
\* the first one's SVG without an operation of its own
C16_Witness ==
    /\ Len(sess) = 2
    /\ Len(ops) = 1
    /\ ops[1].s = 1
    /\ sess[1].cfg = sess[2].cfg
    /\ ReturnedOutput(1, BlockA)
    /\ ReturnedOutput(2, BlockA)
    /\ sess[2].results = sess[1].results
    /\ sess[1].mode = "batch" /\ sess[2].mode = "batch"

\* the discovery processes that are running and have not been sent a kill
LiveFetches == {f \in 1..Len(fetches) : ~fetches[f].done /\ ~fetches[f].killed}

\* C17: at most one discovery process is running without having been sent a
\* kill, and it is the one themePendingChild refers to; a call that starts a
\* process while a fetch for another key is in flight has sent that fetch's
\* process a kill in the same step
C17_StaleFetchKilled ==
    /\ [](/\ Cardinality(LiveFetches) <= 1
          /\ LiveFetches \subseteq {themePendingChild})
    /\ [][Len(fetches') > Len(fetches) =>
             /\ Len(fetches') = Len(fetches) + 1
             /\ \A f \in 1..Len(fetches) :
                    ~fetches[f].done
                        => /\ fetches'[f].killed
                           /\ f = themePendingChild => themePendingKey # fetches'[Len(fetches')].key
             /\ themePendingChild' = Len(fetches')]_vars

\* C17: the fetch for the first key was killed, and has not yet ended, when
\* the fetch for the second key was started
C17_Witness ==
    /\ Len(fetches) = 2
    /\ fetches[1].key # fetches[2].key
    /\ fetches[1].killed /\ ~fetches[1].done
    /\ ~fetches[2].killed /\ ~fetches[2].done
    /\ themePendingChild = 2
    /\ themeCacheKey = <<>>

\* the theme cache holds a list for the key
ThemesCached(key) == themeCacheKey = key /\ themeCacheResult # <<>>

\* C18: a fetch that ends with an error, with no output or with output that
\* names no theme resolves to the built-in list and leaves the theme cache as
\* it is; a fetch that ends with names resolves to them and caches them under
\* the key it was started for; nothing else fills the cache; so a call for a
\* key whose fetch has failed, made when no list is cached and no fetch is
\* pending for the key, starts a new process, and no call for a configuration
\* with a jar is answered at once with the built-in list
C18_FailureNotCached ==
    [][/\ \A f \in 1..Len(fetches) : \A stdout \in ThemeOutputs :
              ~fetches[f].done =>
                  /\ (ThemeCallback(f, TRUE, stdout)
                          \/ (ParseHelpThemes(stdout) = <<>>
                                 /\ ThemeCallback(f, FALSE, stdout)))
                        => /\ fetches'[f].val = FALLBACK_PLANTUML_THEMES
                           /\ UNCHANGED <<themeCacheKey, themeCacheResult>>
                  /\ (ParseHelpThemes(stdout) # <<>> /\ ThemeCallback(f, FALSE, stdout))
                        => /\ fetches'[f].val = ParseHelpThemes(stdout)
                           /\ themeCacheKey' = fetches[f].key
                           /\ themeCacheResult' = ParseHelpThemes(stdout)
       /\ (themeCacheResult' # themeCacheResult \/ themeCacheKey' # themeCacheKey)
              => \/ themeCacheResult' = <<>> /\ themeCacheKey' = <<>>
                 \/ \E f \in 1..Len(fetches) :
                        /\ ~fetches[f].done /\ fetches'[f].done
                        /\ fetches'[f].val # FALLBACK_PLANTUML_THEMES
                        /\ themeCacheResult' = fetches'[f].val
                        /\ themeCacheKey' = fetches[f].key
       /\ Len(calls') > Len(calls) =>
              LET call == calls'[Len(calls')]
              IN  /\ (call.key # <<>> /\ call.ret.op = 0)
                        => call.ret.val = themeCacheResult
                              /\ call.ret.val # FALLBACK_PLANTUML_THEMES
                  /\ (/\ \E f \in 1..Len(fetches) :
                             /\ fetches[f].done
                             /\ fetches[f].key = call.key
                             /\ fetches[f].val = FALLBACK_PLANTUML_THEMES
                      /\ ~ThemesCached(call.key)
                      /\ ~(themePendingPromise # 0 /\ themePendingKey = call.key))
                        => /\ Len(fetches') = Len(fetches) + 1
                           /\ call.started = Len(fetches')
                           /\ call.ret = Pending(Len(fetches'))]_vars

\* C18: the first fetch for a key failed, nothing is cached, and the next
\* call for the key has started a second process
C18_Witness ==
    /\ Len(fetches) = 2
    /\ Len(calls) = 2
    /\ fetches[1].done /\ fetches[1].val = FALLBACK_PLANTUML_THEMES
    /\ ~fetches[1].killed
    /\ fetches[2].key = fetches[1].key
    /\ calls[2].started = 2
    /\ themeCacheResult = <<>>

\* C19: when clearCache returns, the content cache of plantuml.ts is empty,
\* the theme cache and the pending discovery fetch are forgotten,
\* activeChildren is empty, and the discovery process in flight and every
\* render process that was in activeChildren have each been sent one more
\* kill; every render process still running is in activeChildren until then,
\* so none is left without a kill
C19_ResetClearsAndKills ==
    /\ [](\A o \in LocalOps :
             /\ ops[o].tracked => ~ops[o].settled
             /\ (~ops[o].settled /\ ~ops[o].tracked) => ops[o].kills > 0)
    /\ [][ClearCache =>
             /\ cache' = <<>>
             /\ themeCacheKey' = <<>> /\ themeCacheResult' = <<>>
             /\ themePendingKey' = <<>> /\ themePendingPromise' = 0
             /\ themePendingChild' = 0
             /\ ActiveChildren(Heap)' = {}
             /\ \A o \in ActiveChildren(Heap) : ops'[o].kills = ops[o].kills + 1
             /\ \A o \in LocalOps : ~ops[o].settled => ops'[o].kills > 0
             /\ \A o \in 1..Len(ops) \ ActiveChildren(Heap) : ops'[o] = ops[o]
             /\ \A f \in 1..Len(fetches) : ~fetches[f].done => fetches'[f].killed]_vars

\* C19: clearCache ran after one render of three had succeeded: the cache is
\* empty again, the two processes still running and the discovery process
\* have been killed, and nothing is tracked
C19_Witness ==
    /\ cache = <<>>
    /\ \E o \in LocalOps : ops[o].settled /\ ops[o].code = "0"
    /\ Cardinality({o \in LocalOps :
                       ~ops[o].settled /\ ~ops[o].tracked /\ ops[o].kills = 1}) = 2
    /\ ActiveChildren(Heap) = {}
    /\ Len(fetches) = 1 /\ fetches[1].killed /\ ~fetches[1].done
    /\ themePendingChild = 0 /\ themePendingPromise = 0

\* the rendered output of the backend for the block with trimmed text t
OwnOutput(t) == SvgDoc(EnsureStartEndTags(t))

\* the error strings a block can get
ErrorStrings ==
    {TimedOutError, ExecutionError("ENOENT"), ServerHttpError, ServerUnexpectedError,
     ServerTimedOutError, ServerConnectionError} \cup ContentErrors

HasMarker(svg) == \E i \in 1..Len(svg) : svg[i] = "<svg" \/ svg[i] = "<?xml "

\* C21: a response with a success status whose body holds '<svg' or '<?xml'
\* is returned as it is and stored in the server cache under the request's
\* key; a response with another status, or a success whose body holds
\* neither marker, returns an error string and leaves the server cache as it
\* was; every value in the server cache holds a marker, and the cache changes
\* only when such a body arrives or a later request reads it
C21_OnlyValidatedBodyCached ==
    /\ \A k \in 1..Len(serverCache) : HasMarker(serverCache[k].v)
    /\ [][/\ \A o \in HttpOps :
               /\ HttpResponseOf(o, FALSE)
                     => /\ ops'[o].settled
                        /\ ops'[o].val = ServerHttpError
                        /\ serverCache' = serverCache
               /\ \A svg \in ServerBodies(ops[o]) :
                     HttpBodyOf(o, svg)
                        => /\ ops'[o].settled
                           /\ IF HasMarker(svg)
                              THEN /\ ops'[o].val = svg
                                   /\ LruValueOf(serverCache', ops[o].hash) = svg
                              ELSE /\ ops'[o].val = ServerUnexpectedError
                                   /\ ~HasMarker(ops'[o].val)
                                   /\ serverCache' = serverCache
          /\ LruKeysOf(serverCache') # LruKeysOf(serverCache)
                => \E o \in HttpOps : \E svg \in ServerBodies(ops[o]) :
                       HasMarker(svg) /\ HttpBodyOf(o, svg)]_vars

\* C21: one request of a group was answered with an XML document without
\* '<svg' and is cached, another with an HTML page and a third with a
\* non-success status, neither of which is cached
C21_Witness ==
    \E o1 \in HttpOps : \E o2 \in HttpOps : \E o3 \in HttpOps :
        /\ ops[o1].settled /\ ops[o1].val = <<"<?xml ", "<error/>">>
        /\ LruValueOf(serverCache, ops[o1].hash) = ops[o1].val
        /\ ops[o2].settled /\ ops[o2].val = ServerUnexpectedError
        /\ ops[o3].settled /\ ops[o3].val = ServerHttpError
        /\ ops[o2].hash \notin LruKeysOf(serverCache)
        /\ ops[o2].hash # ops[o3].hash

\* C22: two different ordered lists of fields never give computeHash the
\* same bytes to digest
C22_AsStated ==
    (calc.fn = "computeHash" /\ calc.done /\ calc.args[1] # calc.args[2])
        => calc.ret[1] # calc.ret[2]

\* the fields the claim names, as the renderer uses them: the normalised
\* content and, with their defaults filled in, the paths and the theme
RenderFields(mode, req) ==
    IF mode = "server"
    THEN <<ThemedContent(EnsureStartEndTags(Trim(req.block)), req), req.serverUrl,
           OrDefault(req.plantumlTheme, <<"default">>)>>
    ELSE <<EnsureStartEndTags(Trim(req.block)), req.jarPath,
           ResolveJavaCommand(OrDefault(req.javaPath, <<"java">>)),
           OrDefault(req.dotPath, <<"dot">>),
           OrDefault(req.plantumlTheme, <<"default">>)>>

\* C23: a change of one field of a request changes its cache key exactly
\* when it changes a render-affecting field (local: normalised content, jar
\* path, Java command, dot path, theme; server: themed content, server URL,
\* theme); a change that leaves all of these as they were leaves the key as
\* it was
C23_KeySensitivity ==
    (calc.fn = "cacheKey" /\ calc.done) =>
        ((calc.ret[1] = calc.ret[2])
            <=> (RenderFields(calc.args[1], calc.args[2])
                    = RenderFields(calc.args[1], calc.args[3])))

\* C23: a local request whose dot path changed has a new key
C23_Witness ==
    /\ calc.fn = "cacheKey" /\ calc.done
    /\ calc.args[1] = "local"
    /\ calc.args[2].dotPath = <<"dot">> /\ calc.args[3].dotPath = <<"/opt/dot">>
    /\ calc.ret[1] # calc.ret[2]

\* C23: a local request whose debounce delay changed keeps its key
C23_WitnessUnchanged ==
    /\ calc.fn = "cacheKey" /\ calc.done
    /\ calc.args[1] = "local"
    /\ calc.args[2].debouncePlantUmlMs # calc.args[3].debouncePlantUmlMs
    /\ calc.ret[1] = calc.ret[2]

\* the settings that no renderer reads
NoRenderEffect == {"debounceNoPlantUmlMs", "debouncePlantUmlMs"}

DiffersOnlyIn(a, b, fields) ==
    /\ a # b
    /\ \A key \in DOMAIN a : a[key] # b[key] => key \in fields

\* C24: updateConfig with a configuration that differs from the last one
\* only in the debounce delays records the new configuration and does
\* nothing else: no render request is made, no loading timer is set, the
\* current AbortController is not aborted, no process is killed, and both
\* caches and the pending debounce timer stay as they are
C24_NonRenderUpdateIsInert ==
    [][\A config \in PreviewConfigs :
          (/\ preview.panel
           /\ DiffersOnlyIn(config, preview.lastConfig, NoRenderEffect)
           /\ UpdateConfig(config))
              => /\ preview' = [preview EXCEPT !.lastConfig = config]
                 /\ sess' = sess
                 /\ ops' = ops
                 /\ renderAbortController' = renderAbortController
                 /\ cache' = cache
                 /\ serverCache' = serverCache]_vars

\* C24: the delay was changed while the second render was in flight and the
\* first one's output was cached: the render is still running, not aborted,
\* and the cache entry is there
C24_Witness ==
    /\ Len(sess) = 2
    /\ sess[2].cfg.debouncePlantUmlMs = 300
    /\ preview.lastConfig # Null
    /\ preview.lastConfig.debouncePlantUmlMs = 500
    /\ renderAbortController = 2
    /\ ~sess[2].aborted
    /\ sess[2].pc # "done"
    /\ \E o \in 1..Len(ops) : ops[o].s = 2 /\ ~ops[o].settled /\ ops[o].kills = 0
    /\ cache # <<>>
    /\ preview.loadingRenderTimer = Null

\* the operations request s has started
OpsOf(s) == {o \in 1..Len(ops) : ops[o].s = s}

\* C25 as stated: a block whose result says the backend could not be
\* started has the configuration error as its result, and its request has
\* attempted no process
C25_AsStated ==
    \A s \in 1..Len(sess) : \A t \in DOMAIN sess[s].results :
        sess[s].results[t] \in {NoJarError, ExecutionError("ENOENT")}
            => sess[s].results[t] = NoJarError /\ OpsOf(s) = {}

\* C25 (as the code has it): a local request without a jar path returns at
\* once with the 'jar is not configured' error for every block, starting no
\* process and leaving the cache alone; a process that cannot be spawned has
\* been attempted, and its 'error' event resolves a single render to the
\* 'execution error' string and rejects a batch, changing no cache entry;
\* neither error string is ever a cache value
C25_SpawnFailureNotCached ==
    /\ [](\A k \in 1..Len(cache) :
              cache[k].v \notin {NoJarError, ExecutionError("ENOENT")})
    /\ [][Len(sess') > Len(sess) =>
             LET s == Len(sess')
             IN  (sess'[s].mode # "server" /\ sess'[s].cfg.jarPath = <<>>)
                    => /\ sess'[s].pc = "done"
                       /\ Len(ops') = Len(ops)
                       /\ cache' = cache
                       /\ \A i \in 1..Len(sess'[s].blocks) :
                              sess'[s].results[Trim(sess'[s].blocks[i])] = NoJarError]_vars
    /\ [][\A o \in LocalOps :
             ChildError(o)
                => /\ ops'[o].settled
                   /\ ops'[o].val = IF ops[o].kind = "batch" THEN ErrorObj("ENOENT")
                                    ELSE ExecutionError("ENOENT")
                   /\ Entries(cache') = Entries(cache)]_vars

\* C25: one request returned the configuration error without a process,
\* another one's process could not be spawned and it returned the execution
\* error; the cache is empty
C25_Witness ==
    /\ Len(sess) = 2
    /\ sess[1].cfg.jarPath = <<>>
    /\ sess[1].pc = "done"
    /\ sess[1].results[BlockA] = NoJarError
    /\ OpsOf(1) = {}
    /\ sess[2].pc = "done"
    /\ BlockA \in DOMAIN sess[2].results
    /\ sess[2].results[BlockA] = ExecutionError("ENOENT")
    /\ \E o \in OpsOf(2) : ops[o].erred
    /\ cache = <<>>

\* C26: the timeout of a batch of n >= 1 uncached blocks is 15 s plus 5 s for
\* each block beyond the first, but 60 s at most; a larger batch never has a
\* smaller timeout, and no timeout is below 15 s or above 60 s
C26_BatchTimeoutScales ==
    (calc.fn = "batchTimeout" /\ calc.done) =>
        LET n == calc.args[1]
            m == calc.args[2]
            linear == 15000 + (n - 1) * 5000
        IN  /\ calc.ret[1] = IF linear <= 60000 THEN linear ELSE 60000
            /\ calc.ret[1] >= 15000
            /\ calc.ret[1] <= 60000
            /\ n <= m => calc.ret[1] <= calc.ret[2]

\* C26: a batch below the maximum and a batch large enough to reach it
C26_Witness ==
    /\ calc.fn = "batchTimeout"
    /\ calc.done
    /\ calc.args = <<3, 11>>
    /\ calc.ret = <<25000, 60000>>

\* the 0-based source line of the error of an excerpt call
ErrorLine == calc.args[1] - 1 - calc.args[3]

\* an excerpt call whose error line lies inside the document
ExcerptCall ==
    /\ calc.fn = "buildErrorMessage"
    /\ calc.done
    /\ ErrorLine >= 0
    /\ ErrorLine < calc.args[2]

\* the positions of an excerpt that hold a source line
LinePositions(excerpt) == {p \in 1..Len(excerpt) : excerpt[p].kind = "line"}

\* what the excerpt of a document of n lines with error line L is said to
\* be: the two windows, the lines between them in full when fewer than 3 and
\* as a marker otherwise, ascending, each once, L highlighted, 25 lines at most
ExcerptAsSpecified(excerpt, n, L) ==
    LET head == 0..(Min(5, n) - 1)
        context == Max(0, L - 15)..Min(n - 1, L + 2)
        gap == Min(5, n)..(Max(0, L - 15) - 1)
        shown == {excerpt[p].i : p \in LinePositions(excerpt)}
    IN  /\ shown = head \cup context \cup (IF Cardinality(gap) >= 3 THEN {} ELSE gap)
        /\ \A p, q \in LinePositions(excerpt) : p < q => excerpt[p].i < excerpt[q].i
        /\ \A p \in LinePositions(excerpt) : excerpt[p].highlight <=> excerpt[p].i = L
        /\ \A p \in 1..Len(excerpt) :
               excerpt[p].kind = "skip"
                  => /\ Cardinality(gap) >= 3
                     /\ excerpt[p].i = Cardinality(gap)
                     /\ p = Min(5, n) + 1
        /\ Cardinality(gap) >= 3 => \E p \in 1..Len(excerpt) : excerpt[p].kind = "skip"
        /\ Cardinality(LinePositions(excerpt)) <= 25

\* C27 as stated: for an error line inside the document the excerpt shows
\* the first min(5, n) lines and the lines max(0, L-15) to min(n-1, L+2),
\* every shown line once and in ascending order with exactly line L
\* highlighted, the lines between the two windows as a marker with their
\* number when there are at least 3 and in full otherwise, and never more
\* than 25 source lines
C27_AsStated ==
    ExcerptCall => ExcerptAsSpecified(calc.ret, calc.args[2], ErrorLine)

\* the number a character of the alphabet stands for
SymbolValue(ch) == (CHOOSE k \in 1..64 : PLANTUML_ALPHABET[k] = ch) - 1

\* the inverse of the encoding: every 4 characters give 3 bytes
RECURSIVE PlantumlDecode(_)
PlantumlDecode(str) ==
    IF Len(str) < 4 THEN <<>>
    ELSE LET c1 == SymbolValue(str[1])
             c2 == SymbolValue(str[2])
             c3 == SymbolValue(str[3])
             c4 == SymbolValue(str[4])
         IN  <<(c1 * 4) + (c2 \div 16), ((c2 % 16) * 16) + (c3 \div 4), ((c3 % 4) * 64) + c4>>
             \o PlantumlDecode(SubSeq(str, 5, Len(str)))

\* raw inflate of a stream of stored blocks: the data of the final block,
\* whatever follows the end of the stream is not read
InflateRaw(stream) ==
    LET len == stream[2] + (256 * stream[3])
    IN  IF /\ Len(stream) >= 5
           /\ stream[1] = 1
           /\ stream[4] = 255 - stream[2]
           /\ stream[5] = 255 - stream[3]
           /\ Len(stream) >= 5 + len
        THEN SubSeq(stream, 6, 5 + len)
        ELSE <<"invalid">>

Zeros(n) == [j \in 1..n |-> 0]

\* C28: the encoder gives 4 characters of the alphabet 0-9 A-Z a-z - _ for
\* every started group of 3 bytes, packing the bits as base64 does and
\* filling a partial last group with zero bytes, so decoding gives back the
\* bytes followed by the padding; and decoding an encoded text and inflating
\* the result gives back the UTF-8 bytes of the text, whatever its length
C28_EncodeRoundTrip ==
    /\ (calc.fn = "plantumlEncode" /\ calc.done) =>
          LET n == Len(calc.args)
              groups == (n + 2) \div 3
          IN  /\ Len(calc.ret) = 4 * groups
              /\ \A p \in 1..Len(calc.ret) : \E k \in 1..64 : PLANTUML_ALPHABET[k] = calc.ret[p]
              /\ PlantumlDecode(calc.ret) = calc.args \o Zeros((3 * groups) - n)
    /\ (calc.fn = "encodePlantUml" /\ calc.done) =>
          /\ \A p \in 1..Len(calc.ret) : \E k \in 1..64 : PLANTUML_ALPHABET[k] = calc.ret[p]
          /\ InflateRaw(PlantumlDecode(calc.ret)) = Utf8(calc.args)

\* C28: a text of two characters has been encoded; its 3 UTF-8 bytes are
\* compressed to a stream that is not a whole number of groups, and the
\* encoding has 4 characters for each of the 3 started groups
C28_Witness ==
    /\ calc.fn = "encodePlantUml"
    /\ calc.done
    /\ calc.args = <<65, 233>>
    /\ Len(Utf8(calc.args)) = 3
    /\ Len(DeflateRawSync(Utf8(calc.args))) % 3 = 2
    /\ Len(calc.ret) = 12

\* the debounce timers that are neither cleared nor expired
PendingTimers(pv) == {t \in 1..Len(pv.timers) : pv.timers[t].state = "pending"}

\* C29: when the previewed file is saved while the panel is open, the
\* handler clears the debounce timer and starts a render of the saved text
\* in the same turn; afterwards no timer is pending, so a debounced render
\* can start only for a change made after the save; and a pending timer
\* always holds the current text of the document, never an older one
C29_SaveRendersAtOnce ==
    /\ [][(SaveTextDocument /\ preview.panel)
             => /\ preview'.debounceTimer = 0
                /\ PendingTimers(preview') = {}
                /\ Len(sess') = Len(sess) + 1
                /\ sess'[Len(sess')].blocks = preview.doc.blocks
                /\ preview'.started = Append(preview.started, "save")
                /\ preview'.doc = preview.doc]_vars
    /\ [](\A t \in PendingTimers(preview) : preview.timers[t].text = preview.doc)

\* C29: a save has cleared a pending timer and started a render
C29_Witness ==
    /\ \E t \in 1..Len(preview.timers) : preview.timers[t].state = "cleared"
    /\ PendingTimers(preview) = {}
    /\ preview.started # <<>>
    /\ preview.started[Len(preview.started)] = "save"
    /\ sess[Len(sess)].blocks = preview.doc.blocks

\* the diagram content of the render started last
LastRenderedDiagramContent ==
    LET blocks == sess[Len(sess)].blocks
    IN  JoinParts([i \in 1..Len(blocks) |-> Trim(blocks[i])])

\* C30 as stated: at most one debounce timer is pending; a text change
\* replaces it by a timer with the new text whose delay is the
\* PlantUML-change delay when the diagram content of the new text differs
\* from the diagram content rendered last and the no-PlantUML-change delay
\* otherwise; when the timer expires exactly one render starts, with the
\* text of the last change
C30_AsStated ==
    /\ [](/\ Cardinality(PendingTimers(preview)) <= 1
          /\ \A t \in PendingTimers(preview) : t = preview.debounceTimer)
    /\ [][\A text \in PreviewTexts :
             (ChangeTextDocument(text) /\ preview.panel /\ preview.lastConfig # Null)
                => LET t == preview'.debounceTimer
                   IN  /\ PendingTimers(preview') = {t}
                       /\ preview'.timers[t].text = text
                       /\ (sess # <<>> /\ preview.loadingRenderTimer = Null)
                             => preview'.timers[t].delay =
                                   IF ExtractDiagramContent(text) # LastRenderedDiagramContent
                                   THEN preview.lastConfig.debouncePlantUmlMs
                                   ELSE preview.lastConfig.debounceNoPlantUmlMs]_vars
    /\ [][\A t \in 1..Len(preview.timers) :
             DebounceTimerFires(t)
                => /\ Len(sess') = Len(sess) + 1
                   /\ sess'[Len(sess')].blocks = preview.doc.blocks
                   /\ PendingTimers(preview') = {}]_vars

\* C31: whenever the panel's HTML is replaced, it is replaced by the render
\* started last, that render's signal is not aborted, and it was started on
\* the panel that is open now; so the HTML a panel shows never comes from a
\* render that was superseded or whose panel was disposed while it ran
C31_OnlyLatestRenderWritesHtml ==
    /\ [][(preview'.html # preview.html /\ preview'.html # 0)
             => LET s == preview'.html
                IN  /\ s = Len(sess')
                    /\ sess'[s].pc = "done"
                    /\ ~sess'[s].aborted
                    /\ preview'.panel
                    /\ preview'.renders[s].panel = preview'.panels]_vars
    /\ [](preview.html # 0 => preview.panel /\ preview.renders[preview.html].panel = preview.panels)

\* C31: the first render was in flight when its panel was disposed and wrote
\* nothing; a second panel was opened and shows the HTML of the second render
C31_Witness ==
    /\ Len(sess) = 2
    /\ preview.renders[1].panel = 1
    /\ sess[1].aborted
    /\ sess[1].pc = "done"
    /\ \E o \in 1..Len(ops) : ops[o].s = 1 /\ ops[o].kills > 0
    /\ preview.panels = 2
    /\ preview.renders[2].panel = 2
    /\ preview.html = 2

\* the openPreview calls whose promise is resolved in this step
ResolvedNow ==
    {c \in 1..Len(preview.opens) : ~preview.opens[c].resolved /\ preview'.opens[c].resolved}

\* C35 as stated: when the promise of an openPreview call is resolved, the
\* first render started after that call was made has completed, unless a
\* later openPreview call has superseded it or the panel has been disposed
\* (the document is open in an editor, so its text can always be read)
C35_AsStated ==
    [][\A c \in ResolvedNow :
          \/ c < Len(preview'.opens)
          \/ ~preview'.panel
          \/ /\ Len(sess') > preview.opens[c].renderSeq
             /\ sess'[preview.opens[c].renderSeq + 1].pc = "done"]_vars

\* the operations started in this step
StartedNow == (Len(ops) + 1)..Len(ops')

\* block t of request s had its result before this step: in the map, as a
\* settled operation, or as a cache hit waiting to be collected
FinishedBefore(s, t, value) ==
    \/ t \in DOMAIN sess[s].results /\ sess[s].results[t] = value
    \/ \E o \in 1..Len(ops) :
           ops[o].s = s /\ ops[o].settled /\ ops[o].trimmed = t /\ ops[o].val = value
    \/ \E j \in 1..Len(sess[s].pend) : sess[s].pend[j].op = 0 /\ sess[s].pend[j].val = value

\* C32: in every step that leaves a request's signal aborted (the abort
\* itself and everything after it) no process and no HTTP request is started
\* for that request, and each entry of its result map is the empty string
\* unless the block had its result before the step; a block that was not
\* finished before the abort is absent or mapped to the empty string
C32_NothingStartsAfterAbort ==
    [][\A s \in 1..Len(sess) :
          sess'[s].aborted
             => /\ \A o \in StartedNow : ops'[o].s # s
                /\ \A t \in DOMAIN sess'[s].results :
                       \/ sess'[s].results[t] = Cancelled
                       \/ FinishedBefore(s, t, sess'[s].results[t])]_vars

\* C32: a request of three blocks was cancelled while its first operations
\* were in flight; it has returned, the blocks in flight are mapped to the
\* empty string and no operation was started for the remaining block
C32_Witness ==
    /\ Len(sess) = 1
    /\ sess[1].aborted
    /\ sess[1].pc = "done"
    /\ \E o \in 1..Len(ops) : WasCancelled(o)
    /\ \E t \in DOMAIN sess[1].results : sess[1].results[t] = Cancelled
    /\ \E i \in 1..Len(sess[1].blocks) :
           /\ Trim(sess[1].blocks[i]) \notin DOMAIN sess[1].results
           /\ \A o \in 1..Len(ops) : ops[o].trimmed # Trim(sess[1].blocks[i])

\* clearCache killed the process of operation o: it has been sent a kill that
\* did not come from its own timeout
ResetKilled(o) ==
    /\ ops[o].kills > 0
    /\ ~(ops[o].settled /\ ops[o].val \in {TimedOutError, ErrorObj("Timed out")})

\* C33 as stated: once clearCache has killed a process of a render request,
\* that request starts no further process and adds nothing to the content
\* cache, and the callback of a discovery process killed by clearCache leaves
\* the theme cache empty
C33_AsStated ==
    [][/\ (\E o \in LocalOps : ResetKilled(o)) =>
             /\ \A n \in StartedNow : \A o \in LocalOps :
                    ResetKilled(o) => ops'[n].s # ops[o].s
             /\ Entries(cache') \subseteq Entries(cache)
       /\ \A f \in 1..Len(fetches) :
             (fetches[f].killed /\ ~fetches[f].done /\ fetches'[f].done) =>
                 (themeCacheKey' = themeCacheKey /\ themeCacheResult' = themeCacheResult)]_vars

\* the documents the backend can produce from a block's content
GeneratedFrom(content) == {SvgDoc(content), ErrorSvgDoc(content)}

\* C34 as stated: in a batch request, whatever is cached under the fingerprint
\* of an uncached block, and whatever SVG is returned for it, is a document
\* the backend generated from that block's own content
C34_AsStated ==
    \A s \in 1..Len(sess) :
        sess[s].mode = "batch" =>
            \A j \in 1..Len(sess[s].uncached) :
                LET b == sess[s].uncached[j]
                IN  /\ \A k \in 1..Len(cache) :
                           cache[k].k = b.hash => cache[k].v \in GeneratedFrom(b.content)
                    /\ (b.trimmed \in DOMAIN sess[s].results
                        /\ HasMarker(sess[s].results[b.trimmed]))
                           => sess[s].results[b.trimmed] \in GeneratedFrom(b.content)

\* C36: whenever renderHtmlAsync returns to renderPanel, no fence went to the
\* synchronous renderToSvg; if the signal was aborted at that moment it
\* returned '' and md.render was not run, and otherwise md.render ran with a
\* map that holds every fence of the source
C36_AbortedReturnsEmpty ==
    \A s \in 1..Len(preview.renders) :
        LET out == preview.renders[s].out
        IN  out # Null =>
                /\ out.sync = {}
                /\ out.aborted => (out.ret = <<>> /\ ~out.rendered)
                /\ ~out.aborted =>
                       (out.rendered /\ FenceSync(sess[s].results, sess[s].blocks) = {})

\* C36: a render was aborted while its process ran, its map lacks a fence of
\* the source, and renderHtmlAsync returned '' without rendering
C36_Witness ==
    \E s \in 1..Len(preview.renders) :
        /\ preview.renders[s].out # Null
        /\ preview.renders[s].out.aborted
        /\ preview.renders[s].out.ret = <<>>
        /\ FenceSync(sess[s].results, sess[s].blocks) # {}
        /\ \E o \in 1..Len(ops) : ops[o].s = s /\ ops[o].kills > 0

\* no operation is in flight and every scheduler call has returned
Quiescent ==
    /\ \A o \in 1..Len(ops) : ops[o].settled
    /\ \A s \in 1..Len(sess) : sess[s].pc = "done"

\* C37: from any moment at which an operation has not settled or a
\* renderAllLocal / renderAllServer call has not returned, a moment follows
\* at which every operation started has settled and every call has returned
\* its map
C37_EveryOperationSettles == (~Quiescent) ~> Quiescent

\* C37: a fan-out call has returned although one of its processes never
\* closed: the timeout settled that operation, and its block has the
\* timeout error in the map
C37_Witness ==
    /\ Quiescent
    /\ \E o \in 1..Len(ops) :
           /\ ops[o].kind = "single" /\ ~ops[o].closed
           /\ ops[o].val = TimedOutError
           /\ sess[ops[o].s].pc = "done"
           /\ ops[o].trimmed \in DOMAIN sess[ops[o].s].results
           /\ sess[ops[o].s].results[ops[o].trimmed] = TimedOutError


\* the entries of a map other than that of key, in their order
Others(map, key) == SelectSeq(map, LAMBDA e : e.k # key)

\* C38: a cache constructed with capacity N >= 1 never holds more than N
\* entries, whatever gets, sets and clears were made; and a set of a key
\* that is present leaves that key as the last (most recently used) entry
\* with the new value, and every other entry, with its value and in its
\* order, as it was
C38_SetOnPresentKeyEvictsNothing ==
    /\ [](calc.fn = "LruCache" =>
             /\ Len(cache) <= calc.args[1]
             /\ Cardinality(LruKeysOf(cache)) = Len(cache))
    /\ [][(Len(accesses') = Len(accesses) + 1
           /\ accesses'[Len(accesses')].op = "set"
           /\ LruHas(cache, accesses'[Len(accesses')].k)) =>
              /\ cache'[Len(cache')] = [k |-> accesses'[Len(accesses')].k,
                                        v |-> accesses'[Len(accesses')].ret]
              /\ Len(cache') = Len(cache)
              /\ Others(cache', accesses'[Len(accesses')].k)
                     = Others(cache, accesses'[Len(accesses')].k)]_vars

\* C38: a cache of capacity 2 was full, and k1, its oldest entry, was set
\* again with another value: both keys are still there and k1 is the newest
C38_Witness ==
    /\ calc.fn = "LruCache" /\ calc.args[1] = 2
    /\ Len(accesses) = 3
    /\ accesses[1] = [op |-> "set", k |-> <<"k", 1>>, ret |-> SvgDoc(BlockA)]
    /\ accesses[2] = [op |-> "set", k |-> <<"k", 2>>, ret |-> SvgDoc(BlockA)]
    /\ accesses[3] = [op |-> "set", k |-> <<"k", 1>>, ret |-> SvgDoc(BlockB)]
    /\ cache = <<[k |-> <<"k", 2>>, v |-> SvgDoc(BlockA)],
                 [k |-> <<"k", 1>>, v |-> SvgDoc(BlockB)]>>


\* the discovery fetches whose callback runs in this step
CallbackNow == {f \in 1..Len(fetches) : ~fetches[f].done /\ fetches'[f].done}

\* C39: the callback of a fetch that was superseded (its process was killed
\* by a call for another key or by clearCache) leaves the pending key,
\* promise and child as they are; and the theme cache is filled only by the
\* callback of a fetch, with the list parsed from its output and under the
\* key the fetch was issued for, so a cached list always is the parsed
\* result of a finished fetch of the cached key
C39_SupersededCallbackHarmless ==
    /\ [](themeCacheResult # <<>> =>
             /\ \E f \in 1..Len(fetches) :
                    /\ fetches[f].done
                    /\ fetches[f].key = themeCacheKey
                    /\ fetches[f].val = themeCacheResult
             /\ \E stdout \in ThemeOutputs : ParseHelpThemes(stdout) = themeCacheResult)
    /\ [][/\ \A f \in CallbackNow :
                fetches[f].killed =>
                    /\ themePendingPromise' = themePendingPromise
                    /\ themePendingChild' = themePendingChild
                    /\ themePendingKey' = themePendingKey
          /\ (themeCacheResult' # <<>>
              /\ <<themeCacheKey', themeCacheResult'>> # <<themeCacheKey, themeCacheResult>>) =>
                 \E f \in CallbackNow :
                     /\ fetches[f].key = themeCacheKey'
                     /\ fetches'[f].val = themeCacheResult']_vars

\* C39: the fetch for the first key was superseded by a call for another
\* key and then ended with a theme list: the second fetch is still the
\* pending one, and the cache holds the first fetch's list under the first key
C39_Witness ==
    /\ Len(fetches) = 2
    /\ fetches[1].killed /\ fetches[1].done
    /\ ~fetches[2].done /\ ~fetches[2].killed
    /\ fetches[1].key # fetches[2].key
    /\ themePendingPromise = 2 /\ themePendingChild = 2
    /\ themePendingKey = fetches[2].key
    /\ themeCacheKey = fetches[1].key /\ themeCacheResult = fetches[1].val
    /\ themeCacheResult # <<>>

====
